---- MODULE Spec2Model ----
(***************************************************************************)
(* Model of beat-api's continuation handling (src/innertube/youtube.js,    *)
(* the response parsers and the YouTube routes).                           *)
(*                                                                         *)
(* Upstream payloads are records; an optional string (a token, an id, a    *)
(* title, visitorData) is a string, and NULL stands for the falsy values   *)
(* JavaScript's || and ?. treat alike (null, undefined, '').               *)
(***************************************************************************)
EXTENDS Naturals, Sequences, FiniteSets, TLC

NULL == "null"

Truthy(x) == x # NULL

\* a || b on optional strings
Or(a, b) == IF Truthy(a) THEN a ELSE b

\* String.prototype.startsWith
StartsWith(s, p) == Len(s) >= Len(p) /\ SubSeq(s, 1, Len(p)) = p

Range(s) == {s[i] : i \in DOMAIN s}

----------------------------------------------------------------------------
(* Bounds of the model *)

\* songs one page carries at most
MaxPageItems == 2
\* songs of the album the upstream serves
MaxAlbumSongs == 3
\* distinct continuation tokens the upstream mints during one walk
MaxTokens == 52

\* artistAlbumsContinuation calls on the shared client
MaxCalls == 2

\* sections of a page, and entries of a section
MaxSections == 2
MaxContents == 2

\* items of a list handed to deduplicateById
MaxItems == 3

\* entries of the playlist shelf of a playlist page
MaxShelfEntries == 2

\* entries of a playlist panel, and cue groups of a transcript
MaxPanelEntries == 2
MaxCues == 2

\* the largest maxAttempts _withRetry is called with
MaxRetryAttempts == 3

\* chunks of one upstream stream
MaxChunks == 3

----------------------------------------------------------------------------
(* State *)

\* one albumSongs call
VARIABLES
  albumPc,            \* "start", "loop", "done" (returned songs) or "failed" (browse threw)
  response,           \* the last upstream response
  songs, continuation, seenContinuations, requestCount,
  sent,               \* continuation tokens sent upstream by resume calls, in order
  minted,             \* number of distinct tokens the upstream has handed out
  carried,            \* ids of the songs the pages fetched so far carried, in page order
  walkShapes,         \* wire shapes of the resumed pages fetched so far
  echoed              \* some page handed out a token an earlier page had handed out

albumVars == <<albumPc, response, songs, continuation, seenContinuations,
               requestCount, sent, minted, carried, walkShapes, echoed>>

\* one resume operation applied to one upstream response
VARIABLES
  rOp,                \* the operation called, "none" before the call
  rPayload,           \* the upstream response it receives
  rInput,             \* its other arguments
  rResult             \* what it returns

resumeVars == <<rOp, rPayload, rInput, rResult>>

\* the InnerTube client the routes share, and the artistAlbumsContinuation calls on it
VARIABLES
  configuredVisitorData,  \* the visitorData the client was constructed with
  innerTubeVisitorData,   \* this.innerTube.visitorData
  calls                   \* per call: position, arguments, saved value, outcome

clientVars == <<configuredVisitorData, innerTubeVisitorData, calls>>

\* one HTTP request on its way through the server
VARIABLES
  expectedToken,      \* process.env.BEARER_TOKEN
  req,                \* method, path, Authorization header, parameters given
  stage,              \* "received", "authorized", "awaiting", "responded"
  handler,            \* the route handler invoked, "none" if none was
  ytCall,             \* the YouTube method the handler called, with its arguments
  resStatus           \* the status answered, "none" before the answer

serverVars == <<expectedToken, req, stage, handler, ytCall, resStatus>>

\* one item mapper applied to one renderer fragment
VARIABLES
  mapFragment,        \* the fragment
  mapMapper,          \* the mapper applied, "none" before
  mapItem             \* what it returned, or Thrown

mapperVars == <<mapFragment, mapMapper, mapItem>>

\* one page mapper applied to the sections of one upstream page
VARIABLES
  pageSections,       \* the sections of the page
  pageOp,             \* the mapper applied, "none" before
  pageItems,          \* the items it mapped the entries to, before any filtering
  pageResult          \* what it returned

pageVars == <<pageSections, pageOp, pageItems, pageResult>>

\* one call of _withRetry, made by _post for an operation or with arguments of its own
VARIABLES
  operation,          \* the operation that posts, "fn" for a call with own arguments
  maxAttempts, initialDelay,
  attempt, delay,     \* the loop's variables
  retryPc,            \* "idle", "loop", "awaiting", "sleeping", "returned", "rejected"
  invoked,            \* number of times fn was invoked: requests sent upstream
  attemptLog,         \* how each settled invocation ended, in order
  waited,             \* the delays slept, in order
  retryOutcome        \* what the call returned or threw

retryVars == <<operation, maxAttempts, initialDelay, attempt, delay, retryPc, invoked,
               attemptLog, waited, retryOutcome>>

\* one request to /api/stream/proxy or /api/stream/play
VARIABLES
  streamRoute,        \* "proxy" or "play", "none" when there is no request
  streamQuery,        \* whether the query names what to stream, and the Range header
  streamPc,           \* "received", "extracting", "connecting", "piping", "done"
  clientConnected,    \* the client's connection is open
  closeListener,      \* req.on("close") has been registered
  upstreamStream,     \* response.data: "none", "open", "ended", "destroyed"
  piped,              \* chunks piped to the client
  streamStatus        \* the status answered, "none" before

streamVars == <<streamRoute, streamQuery, streamPc, clientConnected, closeListener,
                upstreamStream, piped, streamStatus>>

vars == <<albumVars, resumeVars, clientVars, serverVars, mapperVars, pageVars,
         retryVars, streamVars>>

notAlbum == <<resumeVars, clientVars, serverVars, mapperVars, pageVars, retryVars,
              streamVars>>
notResume == <<albumVars, clientVars, serverVars, mapperVars, pageVars, retryVars,
               streamVars>>
notClient == <<albumVars, resumeVars, serverVars, mapperVars, pageVars, retryVars,
               streamVars>>
notServer == <<albumVars, resumeVars, clientVars, mapperVars, pageVars, retryVars,
               streamVars>>
notMapper == <<albumVars, resumeVars, clientVars, serverVars, pageVars, retryVars,
               streamVars>>
notPage == <<albumVars, resumeVars, clientVars, serverVars, mapperVars, retryVars,
             streamVars>>
notStream == <<albumVars, resumeVars, clientVars, serverVars, mapperVars, pageVars,
              retryVars>>
notRetry == <<albumVars, resumeVars, clientVars, serverVars, mapperVars, pageVars,
              streamVars>>

----------------------------------------------------------------------------
(* Renderer fragments and payload shapes *)

\* one listing entry's renderer; present = FALSE when the entry has no such renderer.
\* runs (the byline's runs), badges and menuItems tell the shape of an optional
\* list: "absent", "list" (a list of objects), "nullEntry" (a list holding null) or
\* "notList" (an object that is no array); flexColumns is the number of columns
Fragment(title, videoId, browseId, pageType) ==
  [present |-> TRUE, title |-> title, videoId |-> videoId,
   browseId |-> browseId, pageType |-> pageType,
   runs |-> "list", badges |-> "absent", menuItems |-> "absent", flexColumns |-> 3]

NoRenderer ==
  [present |-> FALSE, title |-> NULL, videoId |-> NULL, browseId |-> NULL, pageType |-> NULL,
   runs |-> "absent", badges |-> "absent", menuItems |-> "absent", flexColumns |-> 0]

ListShapes == {"absent", "list", "nullEntry", "notList"}

\* list?.filter/map/some/find/forEach((x) => x.field ...) throws a TypeError
Throws(shape) == shape \in {"nullEntry", "notList"}

\* the outcome of a mapper that raised an exception
Thrown == [type |-> "throw"]

\* a renderer with none of the identifying fields
BlankFragment == Fragment(NULL, NULL, NULL, NULL)

SongFragment(n) == Fragment("Song " \o ToString(n), "v" \o ToString(n), NULL, NULL)

\* an entry of a contents/items array: a renderer, or a continuationItemRenderer
\* (cir = its continuationEndpoint.continuationCommand.token)
\* (rk = which renderer key it holds)
ItemEntry(f) == [isCont |-> FALSE, cir |-> NULL, rk |-> "musicResponsiveListItemRenderer", r |-> f]
TwoRowEntry(f) == [isCont |-> FALSE, cir |-> NULL, rk |-> "musicTwoRowItemRenderer", r |-> f]
ContEntry(tok) == [isCont |-> TRUE, cir |-> tok, rk |-> "continuationItemRenderer", r |-> NoRenderer]

\* c.musicResponsiveListItemRenderer, c.musicTwoRowItemRenderer
ListItemOf(c) == IF c.rk = "musicResponsiveListItemRenderer" THEN c.r ELSE NoRenderer
TwoRowOf(c) == IF c.rk = "musicTwoRowItemRenderer" THEN c.r ELSE NoRenderer

\* a container of the envelope: its item array and its continuations[0] token
Absent == [present |-> FALSE, items |-> <<>>, cont |-> NULL]
Shape(items, cont) == [present |-> TRUE, items |-> items, cont |-> cont]

\* a response envelope; every container the code probes is a field
EmptyResponse ==
  [page |-> Absent,           \* contents...musicPlaylistShelfRenderer (first page)
   grid |-> Absent,           \* continuationContents.gridContinuation
   playlistShelf |-> Absent,  \* continuationContents.musicPlaylistShelfContinuation
   musicShelf |-> Absent,     \* continuationContents.musicShelfContinuation
   sectionList |-> Absent,    \* continuationContents.sectionListContinuation
   append |-> Absent,         \* onResponseReceivedActions[0].appendContinuationItemsAction
   browseGrid |-> Absent,     \* contents...sectionListRenderer.contents[0].gridRenderer
   browseCarousel |-> Absent, \* ...contents[0].musicCarouselShelfRenderer
   browseShelf |-> Absent,    \* ...contents[0].musicShelfRenderer
   browsePlaylistShelf |-> Absent, \* ...contents[0].musicPlaylistShelfRenderer
   visitorData |-> NULL]      \* responseContext.visitorData

NoItem == [type |-> "null"]

IsItem(x) == x # NoItem

\* arr.filter(Boolean) on mapper results
Compact(s) == SelectSeq(s, IsItem)

----------------------------------------------------------------------------
(* Parsers *)

getContinuation(c) == IF c.present THEN c.cont ELSE NULL

RECURSIVE getItems(_)
getItems(contents) ==
  IF contents = <<>> THEN <<>>
  ELSE (IF Head(contents).isCont THEN <<>> ELSE <<Head(contents)>>) \o getItems(Tail(contents))

RECURSIVE getItemsContinuation(_)
getItemsContinuation(contents) ==
  IF contents = <<>> THEN NULL
  ELSE IF Head(contents).isCont THEN Head(contents).cir
  ELSE getItemsContinuation(Tail(contents))

\* an exception inside the try block is caught and the mapper returns null
parseMusicResponsiveListItemRenderer(renderer) ==
  IF ~renderer.present THEN NoItem
  ELSE IF Throws(renderer.badges) THEN NoItem
  ELSE IF renderer.pageType = "MUSIC_PAGE_TYPE_ARTIST" \/ StartsWith(renderer.browseId, "UC")
    THEN [type |-> "artist", id |-> renderer.browseId, title |-> renderer.title]
  ELSE IF renderer.pageType = "MUSIC_PAGE_TYPE_ALBUM"
    THEN IF Throws(renderer.runs) THEN NoItem
         ELSE [type |-> "album", browseId |-> renderer.browseId, title |-> renderer.title]
  ELSE IF renderer.pageType = "MUSIC_PAGE_TYPE_PLAYLIST"
    THEN [type |-> "playlist",
          id |-> IF StartsWith(renderer.browseId, "VL")
                 THEN SubSeq(renderer.browseId, 3, Len(renderer.browseId))
                 ELSE renderer.browseId,
          browseId |-> renderer.browseId, title |-> renderer.title]
  ELSE IF Truthy(renderer.videoId) \/ Truthy(renderer.title)
    THEN IF Throws(renderer.runs) THEN NoItem
         ELSE [type |-> "song", id |-> renderer.videoId, title |-> renderer.title]
  ELSE NoItem

\* an exception inside the try block is caught and the mapper returns null
parseMusicTwoRowItemRenderer(renderer) ==
  IF ~renderer.present THEN NoItem
  ELSE IF Throws(renderer.badges) THEN NoItem
  ELSE IF StartsWith(renderer.browseId, "MPREb")
    THEN IF Throws(renderer.runs) THEN NoItem
         ELSE [type |-> "album", browseId |-> renderer.browseId, title |-> renderer.title]
  ELSE IF Truthy(renderer.videoId)
    THEN IF Throws(renderer.runs) THEN NoItem
         ELSE [type |-> "song", id |-> renderer.videoId, title |-> renderer.title]
  ELSE IF StartsWith(renderer.browseId, "UC")
    THEN [type |-> "artist", id |-> renderer.browseId, title |-> renderer.title]
  ELSE IF StartsWith(renderer.browseId, "VL") \/ StartsWith(renderer.browseId, "RDCLAK")
    THEN [type |-> "playlist",
          id |-> IF StartsWith(renderer.browseId, "VL")
                 THEN SubSeq(renderer.browseId, 3, Len(renderer.browseId))
                 ELSE renderer.browseId,
          browseId |-> renderer.browseId, title |-> renderer.title]
  ELSE IF Throws(renderer.runs) THEN NoItem
  ELSE [type |-> "unknown", browseId |-> renderer.browseId,
        videoId |-> renderer.videoId, title |-> renderer.title]

\* no try block: an exception leaves the mapper
parseMusicCardShelfRenderer(renderer) ==
  IF ~renderer.present THEN NoItem
  ELSE IF Truthy(renderer.videoId)
    THEN IF Throws(renderer.runs) THEN Thrown
         ELSE [type |-> "song", id |-> renderer.videoId, title |-> renderer.title]
  ELSE IF StartsWith(renderer.browseId, "MPREb")
    THEN IF Throws(renderer.runs) THEN Thrown
         ELSE [type |-> "album", browseId |-> renderer.browseId, title |-> renderer.title]
  ELSE IF StartsWith(renderer.browseId, "UC")
    THEN [type |-> "artist", id |-> renderer.browseId, title |-> renderer.title]
  ELSE IF Throws(renderer.runs) THEN Thrown
  ELSE [type |-> "unknown", browseId |-> renderer.browseId, title |-> renderer.title]

parseAlbumSong(renderer) ==
  IF ~renderer.present THEN NoItem
  ELSE IF ~Truthy(renderer.title) /\ ~Truthy(renderer.videoId) THEN NoItem
  ELSE IF Throws(renderer.runs) \/ Throws(renderer.badges) THEN Thrown
  ELSE [type |-> "song", id |-> renderer.videoId, title |-> renderer.title]

parseChartItem(renderer) ==
  IF ~renderer.present THEN NoItem
  ELSE IF renderer.flexColumns < 3 \/ ~Truthy(renderer.videoId) THEN NoItem
  ELSE IF ~Truthy(renderer.title) THEN NoItem
  ELSE IF Throws(renderer.runs) \/ Throws(renderer.badges) THEN Thrown
  ELSE [type |-> "song", id |-> renderer.videoId, title |-> renderer.title]

parsePlaylistPanelVideoRenderer(renderer) ==
  IF ~renderer.present THEN NoItem
  ELSE IF Throws(renderer.runs) \/ Throws(renderer.menuItems) \/ Throws(renderer.badges)
    THEN Thrown
  ELSE [type |-> "song", id |-> renderer.videoId, title |-> renderer.title]

\* contents.map((c) => parseAlbumSong(c.musicResponsiveListItemRenderer)).filter(Boolean)
AlbumSongsOf(contents) ==
  Compact([i \in DOMAIN contents |-> parseAlbumSong(ListItemOf(contents[i]))])

\* contents.map((c) => parseMusicResponsiveListItemRenderer(
\*   c.musicResponsiveListItemRenderer)).filter(Boolean)
ListItemsOf(contents) ==
  Compact([i \in DOMAIN contents |-> parseMusicResponsiveListItemRenderer(ListItemOf(contents[i]))])

\* items.map((i) => parseMusicTwoRowItemRenderer(i.musicTwoRowItemRenderer)).filter(Boolean)
TwoRowItemsOf(items) ==
  Compact([i \in DOMAIN items |-> parseMusicTwoRowItemRenderer(TwoRowOf(items[i]))])

\* carousel contents: either renderer key, else null
CarouselItemsOf(contents) ==
  Compact([i \in DOMAIN contents |->
             IF contents[i].rk = "musicTwoRowItemRenderer"
               THEN parseMusicTwoRowItemRenderer(contents[i].r)
             ELSE IF contents[i].rk = "musicResponsiveListItemRenderer"
               THEN parseMusicResponsiveListItemRenderer(contents[i].r)
             ELSE NoItem])

\* items.filter((i) => i && i.type === 'album')
RECURSIVE AlbumsOnly(_)
AlbumsOnly(items) ==
  IF items = <<>> THEN <<>>
  ELSE (IF Head(items).type = "album" THEN <<Head(items)>> ELSE <<>>) \o AlbumsOnly(Tail(items))

\* continuation: items.length ? token || null : null
WhenItems(items, tok) == IF items # <<>> THEN tok ELSE NULL

parseAlbumSongs(resp) ==
  [songs |-> AlbumSongsOf(getItems(resp.page.items)),
   continuation |-> Or(getContinuation(resp.page),
                       getItemsContinuation(resp.page.items))]

----------------------------------------------------------------------------
(* Resume operations: one upstream response to one page result *)

\* an element of sectionListContinuation.contents: a renderer of one kind, or an
\* itemSectionRenderer wrapping further renderers
Section(kind, items, cont) ==
  [isWrapper |-> FALSE, inner |-> <<>>, kind |-> kind, items |-> items, cont |-> cont]
Wrapper(inner) ==
  [isWrapper |-> TRUE, inner |-> inner, kind |-> "itemSectionRenderer",
   items |-> <<>>, cont |-> NULL]

\* the renderers parseSectionContent is applied to, in order
RECURSIVE Unwrap(_)
Unwrap(sections) ==
  IF sections = <<>> THEN <<>>
  ELSE (IF Head(sections).isWrapper THEN Head(sections).inner ELSE <<Head(sections)>>)
       \o Unwrap(Tail(sections))

\* what parseSectionContent pushes to allItems
SectionItems(sec) ==
  CASE sec.kind = "gridRenderer" -> TwoRowItemsOf(sec.items)
    [] sec.kind = "musicShelfRenderer" -> ListItemsOf(getItems(sec.items))
    [] sec.kind = "musicCarouselShelfRenderer" -> CarouselItemsOf(sec.items)
    [] OTHER -> <<>>

RECURSIVE AllSectionItems(_)
AllSectionItems(secs) ==
  IF secs = <<>> THEN <<>> ELSE SectionItems(Head(secs)) \o AllSectionItems(Tail(secs))

\* the first truthy continuation among the grid and shelf renderers
RECURSIVE FirstSectionContinuation(_)
FirstSectionContinuation(secs) ==
  IF secs = <<>> THEN NULL
  ELSE IF Head(secs).kind \in {"gridRenderer", "musicShelfRenderer"} /\ Truthy(Head(secs).cont)
    THEN Head(secs).cont
  ELSE FirstSectionContinuation(Tail(secs))

FromGrid(r) ==
  LET items == TwoRowItemsOf(r.grid.items)
  IN [items |-> items, continuation |-> WhenItems(items, r.grid.cont)]

FromPlaylistShelf(r) ==
  LET items == ListItemsOf(getItems(r.playlistShelf.items))
  IN [items |-> items, continuation |-> WhenItems(items, r.playlistShelf.cont)]

FromSectionList(r) ==
  LET secs == Unwrap(r.sectionList.items)
      allItems == AllSectionItems(secs)
      nextContinuation == Or(FirstSectionContinuation(secs), r.sectionList.cont)
  IN [items |-> allItems, continuation |-> WhenItems(allItems, nextContinuation)]

FromAppend(r) ==
  LET items == ListItemsOf(getItems(r.append.items))
  IN [items |-> items,
      continuation |-> WhenItems(items, getItemsContinuation(r.append.items))]

artistItemsContinuation_shelfFirst(r) ==
  IF r.playlistShelf.present THEN FromPlaylistShelf(r)
  ELSE IF r.grid.present THEN FromGrid(r)
  ELSE IF r.sectionList.present THEN FromSectionList(r)
  ELSE FromAppend(r)

artistItemsContinuation(r) ==
  IF r.grid.present THEN FromGrid(r)
  ELSE IF r.playlistShelf.present THEN FromPlaylistShelf(r)
  ELSE IF r.sectionList.present THEN FromSectionList(r)
  ELSE FromAppend(r)

parseSearchContinuation(r) ==
  LET items == ListItemsOf(r.musicShelf.items)
  IN [items |-> items, continuation |-> WhenItems(items, getContinuation(r.musicShelf))]

\* sectionListContinuation.contents.flatMap((c) => c.musicPlaylistShelfRenderer?.contents || [])
RECURSIVE PlaylistShelfContents(_)
PlaylistShelfContents(sections) ==
  IF sections = <<>> THEN <<>>
  ELSE (IF Head(sections).kind = "musicPlaylistShelfRenderer" THEN Head(sections).items ELSE <<>>)
       \o PlaylistShelfContents(Tail(sections))

parsePlaylistContinuation(r) ==
  LET allContents == PlaylistShelfContents(r.sectionList.items)
                     \o r.playlistShelf.items \o r.append.items
      list == ListItemsOf(allContents)
  IN [songs |-> list,
      continuation |->
        WhenItems(list,
                  Or(getContinuation(r.sectionList),
                     Or(getContinuation(r.playlistShelf),
                        Or(getContinuation(r.musicShelf),
                           getItemsContinuation(r.append.items)))))]

libraryContinuation(r) ==
  IF r.grid.present
  THEN [items |-> TwoRowItemsOf(r.grid.items), continuation |-> r.grid.cont]
  ELSE [items |-> ListItemsOf(r.musicShelf.items),
        continuation |-> getContinuation(r.musicShelf)]

\* contents.map((c) => c.musicCarouselShelfRenderer).filter(Boolean).map(parseHomeSection)
RECURSIVE HomeSections(_)
HomeSections(sections) ==
  IF sections = <<>> THEN <<>>
  ELSE (IF Head(sections).kind = "musicCarouselShelfRenderer"
        THEN <<[items |-> CarouselItemsOf(Head(sections).items)]>> ELSE <<>>)
       \o HomeSections(Tail(sections))

parseHomeContinuation(r) ==
  [chips |-> NULL,
   sections |-> HomeSections(r.sectionList.items),
   continuation |-> getContinuation(r.sectionList)]

EmptyAlbums == [albums |-> <<>>, continuation |-> NULL, visitorData |-> NULL]

\* lines 218-240 of artistAlbumsContinuation: the page result from the response and
\* the visitorData argument
ArtistAlbumsPage(r, visitorData) ==
  IF ~r.grid.present THEN EmptyAlbums
  ELSE LET albums == AlbumsOnly(TwoRowItemsOf(r.grid.items))
           nextToken == WhenItems(albums, r.grid.cont)
           nextVisitorData == Or(r.visitorData, visitorData)
       IN [albums |-> albums,
           continuation |-> nextToken,
           visitorData |-> IF Truthy(nextToken) THEN nextVisitorData ELSE NULL]

artistItems(r) ==
  IF r.browseGrid.present
    THEN [items |-> TwoRowItemsOf(r.browseGrid.items),
          continuation |-> r.browseGrid.cont, _visitorData |-> r.visitorData]
  ELSE IF r.browseCarousel.present
    THEN [items |-> CarouselItemsOf(r.browseCarousel.items),
          continuation |-> NULL, _visitorData |-> r.visitorData]
  ELSE IF r.browseShelf.present
    THEN [items |-> ListItemsOf(getItems(r.browseShelf.items)),
          continuation |-> r.browseShelf.cont, _visitorData |-> r.visitorData]
  ELSE [items |-> ListItemsOf(getItems(r.browsePlaylistShelf.items)),
        continuation |-> getItemsContinuation(r.browsePlaylistShelf.items),
        _visitorData |-> r.visitorData]

\* sections.find((section) => section.items.some((item) => item.type === 'album'))
RECURSIVE FindAlbumsSection(_)
FindAlbumsSection(sections) ==
  IF sections = <<>> THEN <<>>
  ELSE IF AlbumsOnly(Head(sections).items) # <<>> THEN <<Head(sections)>>
  ELSE FindAlbumsSection(Tail(sections))

\* artistAlbums, given the parsed artist page and the response of the artistItems
\* browse it may issue
artistAlbums(artistPage, r) ==
  IF ~artistPage.hasSections THEN EmptyAlbums
  ELSE LET found == FindAlbumsSection(artistPage.sections)
       IN IF found = <<>> THEN EmptyAlbums
          ELSE IF Truthy(found[1].browseId)
            THEN LET firstPage == artistItems(r)
                 IN [albums |-> AlbumsOnly(firstPage.items),
                     continuation |-> firstPage.continuation,
                     visitorData |-> IF Truthy(firstPage.continuation)
                                     THEN firstPage._visitorData ELSE NULL]
          ELSE [albums |-> AlbumsOnly(found[1].items),
                continuation |-> NULL, visitorData |-> NULL]

----------------------------------------------------------------------------
(* Upstream responses the resume operations are applied to *)

AlbumTwoRow(t) == Fragment(t, NULL, "MPREb_" \o t, NULL)
SongRenderer(t) == Fragment(t, "v_" \o t, NULL, NULL)

\* every item's title starts with the letter of the container that carries it, and
\* a container's tokens start with "T" and that letter
GridVariants ==
  {Absent,
   Shape(<<>>, "Tg"),
   Shape(<<TwoRowEntry(AlbumTwoRow("g1"))>>, "Tg"),
   Shape(<<TwoRowEntry(SongRenderer("g2"))>>, "Tg")}

PlaylistShelfVariants ==
  {Absent, Shape(<<>>, "Tp"), Shape(<<ItemEntry(SongRenderer("p1"))>>, "Tp")}

MusicShelfVariants ==
  {Absent, Shape(<<>>, "Tm"), Shape(<<ItemEntry(SongRenderer("m1"))>>, "Tm")}

SectionListVariants ==
  {Absent,
   Shape(<<>>, "Ts"),
   Shape(<<Section("gridRenderer", <<TwoRowEntry(AlbumTwoRow("s1"))>>, "Tsg")>>, "Ts"),
   Shape(<<Wrapper(<<Section("musicShelfRenderer", <<ItemEntry(SongRenderer("s2"))>>, NULL)>>)>>,
         "Ts"),
   Shape(<<Section("musicCarouselShelfRenderer", <<TwoRowEntry(AlbumTwoRow("s3"))>>, NULL)>>,
         NULL),
   Shape(<<Section("musicPlaylistShelfRenderer", <<ItemEntry(SongRenderer("s4"))>>, NULL)>>,
         "Ts")}

AppendVariants ==
  {Absent,
   Shape(<<ContEntry("Ta")>>, NULL),
   Shape(<<ItemEntry(SongRenderer("a1")), ContEntry("Ta")>>, NULL)}

ResponseVisitorData == {NULL, "VDr"}

ContinuationPayloads ==
  {[EmptyResponse EXCEPT !.grid = g, !.playlistShelf = p, !.musicShelf = m,
                         !.sectionList = sl, !.append = a, !.visitorData = vd] :
     g \in GridVariants, p \in PlaylistShelfVariants, m \in MusicShelfVariants,
     sl \in SectionListVariants, a \in AppendVariants, vd \in ResponseVisitorData}

\* first pages of an artist's "see more" listing
FirstPagePayloads ==
  {[EmptyResponse EXCEPT !.browseGrid = g, !.visitorData = vd] :
     g \in {Shape(<<TwoRowEntry(AlbumTwoRow("b1"))>>, "Tb"),
            Shape(<<TwoRowEntry(AlbumTwoRow("b1"))>>, NULL)},
     vd \in ResponseVisitorData}
  \cup {[EmptyResponse EXCEPT
           !.browseCarousel = Shape(<<TwoRowEntry(AlbumTwoRow("b2"))>>, NULL)],
        [EmptyResponse EXCEPT
           !.browseShelf = Shape(<<ItemEntry(SongRenderer("b3"))>>, "Tb")],
        [EmptyResponse EXCEPT
           !.browsePlaylistShelf =
              Shape(<<ItemEntry(SongRenderer("b4")), ContEntry("Tb")>>, NULL)]}

\* parsed artist pages: no sections, no album section, an album section with a
\* "see more" endpoint, an album section without one
ArtistPages ==
  {[hasSections |-> FALSE, sections |-> <<>>],
   [hasSections |-> TRUE,
    sections |-> <<[browseId |-> NULL,
                    items |-> <<parseMusicTwoRowItemRenderer(SongRenderer("x1"))>>]>>],
   [hasSections |-> TRUE,
    sections |-> <<[browseId |-> "MPADUC1",
                    items |-> <<parseMusicTwoRowItemRenderer(AlbumTwoRow("x2"))>>]>>],
   [hasSections |-> TRUE,
    sections |-> <<[browseId |-> NULL,
                    items |-> <<parseMusicTwoRowItemRenderer(AlbumTwoRow("x3"))>>]>>]}

SuppliedVisitorData == {NULL, "VD1", "VD2"}

NoInput == [visitorData |-> NULL]
NoResult == [continuation |-> NULL]

\* no resume operation
ResumeIdle ==
  /\ rOp = "none"
  /\ rPayload = EmptyResponse
  /\ rInput = NoInput
  /\ rResult = NoResult

ResumeInit ==
  /\ rOp = "none"
  /\ rPayload \in ContinuationPayloads \cup FirstPagePayloads
  /\ rInput = NoInput
  /\ rResult = NoResult

Returns(op, result) ==
  /\ rOp = "none"
  /\ rOp' = op
  /\ rResult' = result
  /\ UNCHANGED rPayload

SearchContinuation ==
  /\ Returns("searchContinuation", parseSearchContinuation(rPayload))
  /\ UNCHANGED rInput
  /\ UNCHANGED notResume

ArtistItemsContinuation ==
  /\ Returns("artistItemsContinuation", artistItemsContinuation(rPayload))
  /\ UNCHANGED rInput
  /\ UNCHANGED notResume

PlaylistContinuation ==
  /\ Returns("playlistContinuation", parsePlaylistContinuation(rPayload))
  /\ UNCHANGED rInput
  /\ UNCHANGED notResume

LibraryContinuation ==
  /\ Returns("libraryContinuation", libraryContinuation(rPayload))
  /\ UNCHANGED rInput
  /\ UNCHANGED notResume

HomeContinuation ==
  /\ Returns("homeContinuation", parseHomeContinuation(rPayload))
  /\ UNCHANGED rInput
  /\ UNCHANGED notResume

\* one artistAlbumsContinuation call with no other call in flight
ArtistAlbumsContinuation ==
  /\ \E vd \in SuppliedVisitorData :
       /\ Returns("artistAlbumsContinuation", ArtistAlbumsPage(rPayload, vd))
       /\ rInput' = [visitorData |-> vd]
  /\ UNCHANGED notResume

ArtistAlbums ==
  /\ \E page \in ArtistPages :
       /\ Returns("artistAlbums", artistAlbums(page, rPayload))
       /\ rInput' = [visitorData |-> NULL, artistPage |-> page]
  /\ UNCHANGED notResume

ResumeNext ==
  \/ SearchContinuation
  \/ ArtistItemsContinuation
  \/ PlaylistContinuation
  \/ LibraryContinuation
  \/ HomeContinuation
  \/ ArtistAlbumsContinuation
  \/ ArtistAlbums

----------------------------------------------------------------------------
(* YouTube.albumSongs: the self-driven walk over an album's pages *)

maxRequests == 50

\* the while condition
LoopGuard_noCap(cont, count) == Truthy(cont)
LoopGuard(cont, count) == Truthy(cont) /\ count < maxRequests

\* if (seenContinuations.has(continuation)) break
TokenRepeats_never(cont, seen) == FALSE
TokenRepeats(cont, seen) == cont \in seen

\* the songs the loop body takes from a resumed response
LoopSongs(r) ==
  IF r.append.present THEN ListItemsOf(r.append.items) ELSE <<>>

\* the token the loop body takes from a resumed response
LoopContinuation(r) == IF r.playlistShelf.present THEN r.playlistShelf.cont ELSE NULL

Token(n) == "T" \o ToString(n)

\* the next n songs of the album
NextSongs(from, n) == [i \in 1..n |-> ItemEntry(SongFragment(from + i))]
NextIds(from, n) == [i \in 1..n |-> "v" \o ToString(from + i)]

\* how many songs a page may carry, given how many the album has served
PageSizes(served) ==
  {n \in 0..MaxPageItems : served + n <= MaxAlbumSongs}

\* tokens a response may carry: none, a fresh one, or one already sent (an echo of
\* the token just used, or a cycle back to the first)
NextTokens ==
  {NULL}
  \cup (IF minted < MaxTokens THEN {Token(minted + 1)} ELSE {})
  \cup (IF sent # <<>> THEN {sent[1], sent[Len(sent)]} ELSE {})
  \cup (IF albumPc = "loop" /\ Truthy(continuation) THEN {continuation} ELSE {})

Mint(tok) == IF tok = Token(minted + 1) THEN minted + 1 ELSE minted

\* first page of VL<playlistId>: songs in the playlist shelf, the token either in
\* the shelf's continuations or in a trailing continuationItemRenderer
FirstPage(n, tok, inItems) ==
  [EmptyResponse EXCEPT
     !.page = IF inItems /\ Truthy(tok)
              THEN Shape(NextSongs(0, n) \o <<ContEntry(tok)>>, NULL)
              ELSE Shape(NextSongs(0, n), tok)]

\* a resumed page in one of the wire shapes
ResumedPage(shape, from, n, tok) ==
  CASE shape = "append" ->
         [EmptyResponse EXCEPT
            !.append = Shape(NextSongs(from, n)
                             \o (IF Truthy(tok) THEN <<ContEntry(tok)>> ELSE <<>>), NULL)]
    [] shape = "playlistShelf" ->
         [EmptyResponse EXCEPT !.playlistShelf = Shape(NextSongs(from, n), tok)]
    [] shape = "split" ->
         [EmptyResponse EXCEPT
            !.append = Shape(NextSongs(from, n), NULL),
            !.playlistShelf = Shape(<<>>, tok)]
    [] OTHER -> EmptyResponse

WireShapes == {"append", "playlistShelf", "split", "none"}

\* no albumSongs call
AlbumIdle ==
  /\ albumPc = "idle"
  /\ response = EmptyResponse
  /\ songs = <<>>
  /\ continuation = NULL
  /\ seenContinuations = {}
  /\ requestCount = 0
  /\ sent = <<>>
  /\ minted = 0
  /\ carried = <<>>
  /\ walkShapes = {}
  /\ echoed = FALSE

AlbumInit ==
  /\ albumPc = "start"
  /\ response = EmptyResponse
  /\ songs = <<>>
  /\ continuation = NULL
  /\ seenContinuations = {}
  /\ requestCount = 0
  /\ sent = <<>>
  /\ minted = 0
  /\ carried = <<>>
  /\ walkShapes = {}
  /\ echoed = FALSE

\* lines 66-73: the first browse and its parse
AlbumSongsStart ==
  /\ albumPc = "start"
  /\ \E n \in PageSizes(0), tok \in NextTokens, inItems \in BOOLEAN :
       LET r == FirstPage(n, tok, inItems)
           parsed == parseAlbumSongs(r)
       IN /\ response' = r
          /\ songs' = parsed.songs
          /\ continuation' = parsed.continuation
          /\ minted' = Mint(tok)
          /\ carried' = NextIds(0, n)
  /\ seenContinuations' = {}
  /\ requestCount' = 0
  /\ albumPc' = "loop"
  /\ UNCHANGED <<sent, walkShapes, echoed>>
  /\ UNCHANGED notAlbum

\* lines 75-93: one iteration of the loop, the resume call answered
AlbumSongsResume ==
  /\ albumPc = "loop"
  /\ LoopGuard(continuation, requestCount)
  /\ ~TokenRepeats(continuation, seenContinuations)
  /\ seenContinuations' = seenContinuations \cup {continuation}
  /\ requestCount' = requestCount + 1
  /\ sent' = Append(sent, continuation)
  /\ \E shape \in WireShapes, n \in PageSizes(Len(carried)), tok \in NextTokens :
       LET r == ResumedPage(shape, Len(carried), IF shape = "none" THEN 0 ELSE n,
                            IF shape = "none" THEN NULL ELSE tok)
       IN /\ response' = r
          /\ songs' = songs \o LoopSongs(r)
          /\ continuation' = LoopContinuation(r)
          /\ minted' = IF shape = "none" THEN minted ELSE Mint(tok)
          /\ carried' = carried \o NextIds(Len(carried), IF shape = "none" THEN 0 ELSE n)
          /\ walkShapes' = walkShapes \cup {shape}
          /\ echoed' = (echoed \/ (shape # "none" /\ Truthy(tok) /\ Mint(tok) = minted))
  /\ UNCHANGED albumPc
  /\ UNCHANGED notAlbum

\* the loop ends (condition false, or the token was seen) and songs are returned
AlbumSongsReturn ==
  /\ albumPc = "loop"
  /\ ~LoopGuard(continuation, requestCount) \/ TokenRepeats(continuation, seenContinuations)
  /\ albumPc' = "done"
  /\ UNCHANGED <<response, songs, continuation, seenContinuations, requestCount,
                 sent, minted, carried, walkShapes, echoed>>
  /\ UNCHANGED notAlbum

\* the first browse rejects: albumSongs rejects
AlbumSongsStartFails ==
  /\ albumPc = "start"
  /\ albumPc' = "failed"
  /\ UNCHANGED <<response, songs, continuation, seenContinuations, requestCount,
                 sent, minted, carried, walkShapes, echoed>>
  /\ UNCHANGED notAlbum

\* a resume call rejects (after its retries): albumSongs rejects
AlbumSongsResumeFails ==
  /\ albumPc = "loop"
  /\ LoopGuard(continuation, requestCount)
  /\ ~TokenRepeats(continuation, seenContinuations)
  /\ seenContinuations' = seenContinuations \cup {continuation}
  /\ requestCount' = requestCount + 1
  /\ sent' = Append(sent, continuation)
  /\ albumPc' = "failed"
  /\ UNCHANGED <<response, songs, continuation, minted, carried, walkShapes, echoed>>
  /\ UNCHANGED notAlbum

AlbumNext ==
  \/ AlbumSongsStart
  \/ AlbumSongsResume
  \/ AlbumSongsReturn
  \/ AlbumSongsStartFails
  \/ AlbumSongsResumeFails

----------------------------------------------------------------------------
(* The shared client: artistAlbumsContinuation calls that overlap in time *)

Calls == 1..MaxCalls

IdleCall ==
  [pc |-> "idle", entry |-> "none", token |-> NULL, visitorData |-> NULL,
   originalVisitorData |-> NULL, requestVisitorData |-> NULL,
   status |-> "none", result |-> EmptyAlbums]

\* upstream answers to an artist-albums resume
ClientPayloads ==
  {[EmptyResponse EXCEPT !.grid = g, !.visitorData = vd] :
     g \in {Absent, Shape(<<TwoRowEntry(AlbumTwoRow("g1"))>>, "Tg")},
     vd \in ResponseVisitorData}

\* values of YT_VISITOR_DATA the process may start with
ConfiguredVisitorData == {NULL, "VD0"}

QueryTokens == {NULL, "T1"}

\* no artistAlbumsContinuation call
ClientIdle ==
  /\ configuredVisitorData = NULL
  /\ innerTubeVisitorData = NULL
  /\ calls = [c \in Calls |-> IdleCall]

ClientInit ==
  /\ configuredVisitorData \in ConfiguredVisitorData
  /\ innerTubeVisitorData = configuredVisitorData
  /\ calls = [c \in Calls |-> IdleCall]

\* the route's parameter validation
RouteRejects_tokenOnly(token, visitorData) == ~Truthy(token)

RouteRejects(token, visitorData) == ~Truthy(token) \/ ~Truthy(visitorData)

\* the supplied visitorData is not written to the client
Begin_noOverride(c, entry, token, visitorData) ==
  /\ UNCHANGED innerTubeVisitorData
  /\ calls' = [calls EXCEPT ![c] =
                 [@ EXCEPT !.pc = "awaiting", !.entry = entry, !.token = token,
                           !.visitorData = visitorData,
                           !.originalVisitorData = innerTubeVisitorData,
                           !.requestVisitorData = innerTubeVisitorData]]

\* artistAlbumsContinuation up to its await: the client's visitorData is saved and
\* overwritten, and the request leaves with the header _buildHeaders reads then
Begin(c, entry, token, visitorData) ==
  LET current == IF Truthy(visitorData) THEN visitorData ELSE innerTubeVisitorData
  IN /\ innerTubeVisitorData' = current
     /\ calls' = [calls EXCEPT ![c] =
                    [@ EXCEPT !.pc = "awaiting", !.entry = entry, !.token = token,
                              !.visitorData = visitorData,
                              !.originalVisitorData = innerTubeVisitorData,
                              !.requestVisitorData = current]]

\* GET /artist/albums/continuation
RouteRequest(c) ==
  /\ calls[c].pc = "idle"
  /\ \E token \in QueryTokens, visitorData \in SuppliedVisitorData :
       IF RouteRejects(token, visitorData)
       THEN /\ calls' = [calls EXCEPT ![c] =
                           [@ EXCEPT !.pc = "rejected", !.entry = "route", !.token = token,
                                     !.visitorData = visitorData, !.status = "400"]]
            /\ UNCHANGED innerTubeVisitorData
       ELSE Begin(c, "route", token, visitorData)
  /\ UNCHANGED configuredVisitorData
  /\ UNCHANGED notClient

\* a direct call of YouTube.artistAlbumsContinuation(continuation, visitorData)
MethodCall(c) ==
  /\ calls[c].pc = "idle"
  /\ \E visitorData \in SuppliedVisitorData : Begin(c, "method", "T1", visitorData)
  /\ UNCHANGED configuredVisitorData
  /\ UNCHANGED notClient

\* the upstream answers: the page is returned and finally restores the saved value
Settle(c) ==
  /\ calls[c].pc = "awaiting"
  /\ \E r \in ClientPayloads :
       calls' = [calls EXCEPT ![c] =
                   [@ EXCEPT !.pc = "done",
                             !.status = IF calls[c].entry = "route" THEN "200" ELSE "none",
                             !.result = ArtistAlbumsPage(r, calls[c].visitorData)]]
  /\ innerTubeVisitorData' = calls[c].originalVisitorData
  /\ UNCHANGED configuredVisitorData
  /\ UNCHANGED notClient

\* the upstream call throws after its retries: finally restores the saved value and
\* the route's error handler answers with the upstream status, or 500
UpstreamFails(c) ==
  /\ calls[c].pc = "awaiting"
  /\ \E errStatus \in {NULL, "429"} :
       calls' = [calls EXCEPT ![c] =
                   [@ EXCEPT !.pc = "failed",
                             !.status = IF calls[c].entry = "route" THEN Or(errStatus, "500")
                                        ELSE "none"]]
  /\ innerTubeVisitorData' = calls[c].originalVisitorData
  /\ UNCHANGED configuredVisitorData
  /\ UNCHANGED notClient

\* another operation on the shared client (search, browse, next, ...) up to its
\* request: _buildContext and _buildHeaders read this.visitorData as it is then
OtherRequest(c) ==
  /\ calls[c].pc = "idle"
  /\ \E op \in {"search", "browse", "next"} :
       calls' = [calls EXCEPT ![c] =
                   [@ EXCEPT !.pc = "sent", !.entry = op,
                             !.requestVisitorData = innerTubeVisitorData]]
  /\ UNCHANGED <<configuredVisitorData, innerTubeVisitorData>>
  /\ UNCHANGED notClient

ClientNext ==
  \E c \in Calls :
    \/ RouteRequest(c)
    \/ MethodCall(c)
    \/ Settle(c)
    \/ UpstreamFails(c)

----------------------------------------------------------------------------
(* The HTTP server: mounting, authMiddleware and the YouTube router *)

Upper == "ABCDEFGHIJKLMNOPQRSTUVWXYZ"
Lower == "abcdefghijklmnopqrstuvwxyz"

\* one character of String.prototype.toLowerCase
LowerChar(c) ==
  IF \E i \in 1..Len(Upper) : SubSeq(Upper, i, i) = c
  THEN LET i == CHOOSE k \in 1..Len(Upper) : SubSeq(Upper, k, k) = c
       IN SubSeq(Lower, i, i)
  ELSE c

RECURSIVE toLowerCase(_)
toLowerCase(s) ==
  IF Len(s) = 0 THEN s
  ELSE LowerChar(SubSeq(s, 1, 1)) \o toLowerCase(SubSeq(s, 2, Len(s)))

\* s.split(' '): the pieces of s between single spaces, empty pieces included
RECURSIVE SplitFrom(_, _, _)
SplitFrom(s, cur, acc) ==
  IF Len(s) = 0 THEN Append(acc, cur)
  ELSE IF SubSeq(s, 1, 1) = " "
    THEN SplitFrom(SubSeq(s, 2, Len(s)), "", Append(acc, cur))
  ELSE SplitFrom(SubSeq(s, 2, Len(s)), cur \o SubSeq(s, 1, 1), acc)

split(s) == SplitFrom(s, "", <<>>)

\* the status authMiddleware answers with, or "next" when it calls next();
\* header = NULL for a missing or empty Authorization header, expected = NULL for
\* an unset or empty BEARER_TOKEN
authMiddleware_noTokenCheck(header, expected) ==
  IF ~Truthy(header) THEN "401"
  ELSE LET parts == split(header)
       IN IF Len(parts) # 2 \/ toLowerCase(parts[1]) # "bearer" THEN "401"
          ELSE IF ~Truthy(expected) THEN "500"
          ELSE "next"

authMiddleware(header, expected) ==
  IF ~Truthy(header) THEN "401"
  ELSE LET parts == split(header)
       IN IF Len(parts) # 2 \/ toLowerCase(parts[1]) # "bearer" THEN "401"
          ELSE IF ~Truthy(expected) THEN "500"
          ELSE IF parts[2] # expected THEN "403"
          ELSE "next"

\* a route of the YouTube router: the handler's name is the route as registered,
\* required the parameters its handler answers 400 without, yt the YouTube method
\* it calls, arg the parameter passed first
Route(method, pattern, required, yt, arg) ==
  [method |-> method, pattern |-> pattern, required |-> required, yt |-> yt, arg |-> arg]

\* router.get / router.post / router.delete, in registration order
YoutubeRoutes ==
  << Route("GET", <<"search", "suggestions">>, {"q"}, "searchSuggestions", "q"),
     Route("GET", <<"search", "summary">>, {"q"}, "searchSummary", "q"),
     Route("GET", <<"search">>, {"q"}, "search", "q"),
     Route("GET", <<"search", "continuation">>, {"token"}, "searchContinuation", "token"),
     Route("GET", <<"album", ":browseId">>, {}, "album", ":browseId"),
     Route("GET", <<"album", ":playlistId", "songs">>, {}, "albumSongs", ":playlistId"),
     Route("GET", <<"artist", ":browseId">>, {}, "artist", ":browseId"),
     Route("GET", <<"artist", ":browseId", "albums">>, {}, "artistAlbums", ":browseId"),
     Route("GET", <<"artist", ":browseId", "items">>, {}, "artistItems", ":browseId"),
     Route("GET", <<"artist", "items", "continuation">>, {"token"},
           "artistItemsContinuation", "token"),
     Route("GET", <<"artist", "albums", "continuation">>, {"token", "visitorData"},
           "artistAlbumsContinuation", "token"),
     Route("GET", <<"playlist", ":playlistId">>, {}, "playlist", ":playlistId"),
     Route("GET", <<"playlist", "continuation">>, {"token"}, "playlistContinuation", "token"),
     Route("GET", <<"home">>, {}, "home", "continuation"),
     Route("GET", <<"explore">>, {}, "explore", "none"),
     Route("GET", <<"new-releases">>, {}, "newReleaseAlbums", "none"),
     Route("GET", <<"mood-and-genres">>, {}, "moodAndGenres", "none"),
     Route("GET", <<"charts">>, {}, "charts", "continuation"),
     Route("GET", <<"browse", ":browseId">>, {}, "browse", ":browseId"),
     Route("GET", <<"library", ":browseId">>, {}, "library", ":browseId"),
     Route("GET", <<"library", "continuation">>, {"token"}, "libraryContinuation", "token"),
     Route("GET", <<"history">>, {}, "musicHistory", "none"),
     Route("GET", <<"player", ":videoId">>, {}, "player", ":videoId"),
     Route("GET", <<"next", ":videoId">>, {}, "next", ":videoId"),
     Route("POST", <<"queue">>, {}, "queue", "videoIds"),
     Route("GET", <<"lyrics", ":browseId">>, {}, "lyrics", ":browseId"),
     Route("GET", <<"related", ":browseId">>, {}, "related", ":browseId"),
     Route("GET", <<"transcript", ":videoId">>, {}, "transcript", ":videoId"),
     Route("GET", <<"account">>, {}, "accountInfo", "none"),
     Route("POST", <<"like", "video">>, {"videoId"}, "likeVideo", "videoId"),
     Route("POST", <<"like", "playlist">>, {"playlistId"}, "likePlaylist", "playlistId"),
     Route("POST", <<"subscribe">>, {"channelId"}, "subscribeChannel", "channelId"),
     Route("POST", <<"playlist", "create">>, {"title"}, "createPlaylist", "title"),
     Route("POST", <<"playlist", "rename">>, {"playlistId", "name"},
           "renamePlaylist", "playlistId"),
     Route("DELETE", <<"playlist", ":playlistId">>, {}, "deletePlaylist", ":playlistId"),
     Route("POST", <<"playlist", "add">>, {"playlistId", "videoId"},
           "addToPlaylist", "playlistId"),
     Route("POST", <<"playlist", "remove">>, {"playlistId", "videoId", "setVideoId"},
           "removeFromPlaylist", "playlistId"),
     Route("POST", <<"library", "add">>, {"videoId"}, "addSongToLibrary", "videoId"),
     Route("POST", <<"library", "remove">>, {"videoId"}, "removeSongFromLibrary", "videoId") >>

IsParam(segment) == SubSeq(segment, 1, 1) = ":"

\* a route's path pattern against the path below the mount point: a literal
\* segment matches itself, a :parameter any non-empty segment
Match(pattern, path) ==
  /\ Len(pattern) = Len(path)
  /\ \A i \in DOMAIN pattern :
       IF IsParam(pattern[i]) THEN path[i] # "" ELSE pattern[i] = path[i]

\* the index of the first registered route that takes the request, 0 if none does
RECURSIVE FirstMatch(_, _, _, _)
FirstMatch(routes, i, method, path) ==
  IF i > Len(routes) THEN 0
  ELSE IF routes[i].method = method /\ Match(routes[i].pattern, path) THEN i
  ELSE FirstMatch(routes, i + 1, method, path)

Dispatch(routes, method, path) == FirstMatch(routes, 1, method, path)

\* req.params[name] for a :name of the pattern
PathParam(pattern, path, name) ==
  LET i == CHOOSE k \in DOMAIN pattern : pattern[k] = name IN path[i]

\* the value a query or body parameter is given with
ParamValue(name) == "<" \o name \o ">"

NoCall == [method |-> "none", arg |-> NULL]

\* the call a handler makes once its parameters are validated
HandlerCall(route, path, given) ==
  [method |-> route.yt,
   arg |-> IF IsParam(route.arg) THEN PathParam(route.pattern, path, route.arg)
           ELSE IF route.arg \in given THEN ParamValue(route.arg)
           ELSE NULL]

\* the routes of the stream router: each answers 400 unless one of anyOf is given
StreamRoutes ==
  << [method |-> "GET", pattern |-> <<"extract">>, anyOf |-> {"videoId", "url"}],
     [method |-> "GET", pattern |-> <<"info">>, anyOf |-> {"videoId", "url"}],
     [method |-> "GET", pattern |-> <<"proxy">>, anyOf |-> {"url"}],
     [method |-> "GET", pattern |-> <<"play">>, anyOf |-> {"videoId", "url"}] >>

RouteName(route) == <<route.method>> \o route.pattern

StartsWithPath(path, prefix) ==
  Len(path) >= Len(prefix) /\ SubSeq(path, 1, Len(prefix)) = prefix

Below(path, prefix) == SubSeq(path, Len(prefix) + 1, Len(path))

YoutubeMount == <<"api", "youtube">>
StreamMount == <<"api", "stream">>

IsHealth(r) == r.method = "GET" /\ r.path = <<"api", "health">>
IsDocs(r) == r.method = "GET" /\ r.path = <<"api">>
IsYoutube(r) == StartsWithPath(r.path, YoutubeMount)
IsStream(r) == StartsWithPath(r.path, StreamMount)

\* the requests sent to the server
Instantiate(pattern) ==
  [i \in DOMAIN pattern |-> IF IsParam(pattern[i]) THEN "X1" ELSE pattern[i]]

RequestPaths ==
  {YoutubeMount \o Instantiate(YoutubeRoutes[i].pattern) : i \in DOMAIN YoutubeRoutes}
  \cup {StreamMount \o StreamRoutes[i].pattern : i \in DOMAIN StreamRoutes}
  \cup {YoutubeMount, YoutubeMount \o <<"nothing">>, StreamMount \o <<"nothing">>,
        <<"api">>, <<"api", "health">>, <<"nothing">>}

\* the parameters some route on the path reads
RelevantParams(path) ==
  UNION ({YoutubeRoutes[i].required : i \in
            {k \in DOMAIN YoutubeRoutes :
               IsYoutube([path |-> path])
               /\ Match(YoutubeRoutes[k].pattern, Below(path, YoutubeMount))}}
         \cup {StreamRoutes[i].anyOf : i \in
            {k \in DOMAIN StreamRoutes :
               IsStream([path |-> path])
               /\ StreamRoutes[k].pattern = Below(path, StreamMount)}})

AuthorizationHeaders ==
  {NULL, "Bearer s3cret", "bearer s3cret", "BEARER s3cret", "Bearer wrong", "Bearer",
   "Bearer ", "Bearer  s3cret", "Bearer s3cret x", "Basic s3cret", "s3cret"}

ConfiguredTokens == {NULL, "s3cret"}

Requests ==
  UNION {{[method |-> m, path |-> p, authorization |-> a, given |-> g] :
            m \in {"GET", "POST", "DELETE"}, a \in AuthorizationHeaders,
            g \in SUBSET RelevantParams(p)} : p \in RequestPaths}

NoRequest == [method |-> "none", path |-> <<>>, authorization |-> NULL, given |-> {}]

\* no request
ServerIdle ==
  /\ expectedToken = NULL
  /\ req = NoRequest
  /\ stage = "idle"
  /\ handler = <<>>
  /\ ytCall = NoCall
  /\ resStatus = "none"

ServerInit ==
  /\ expectedToken \in ConfiguredTokens
  /\ req \in Requests
  /\ stage = "received"
  /\ handler = <<>>
  /\ ytCall = NoCall
  /\ resStatus = "none"

Responds(status) ==
  /\ stage' = "responded"
  /\ resStatus' = status

\* app.get('/api/health')
Health ==
  /\ stage = "received" /\ IsHealth(req)
  /\ handler' = <<"GET", "api", "health">>
  /\ Responds("200")
  /\ UNCHANGED <<expectedToken, req, ytCall>>
  /\ UNCHANGED notServer

\* authMiddleware in front of the YouTube router and of app.get('/api')
AuthMiddleware ==
  /\ stage = "received" /\ ~IsHealth(req) /\ (IsYoutube(req) \/ IsDocs(req))
  /\ LET outcome == authMiddleware(req.authorization, expectedToken)
     IN IF outcome = "next"
        THEN stage' = "authorized" /\ UNCHANGED resStatus
        ELSE Responds(outcome)
  /\ UNCHANGED <<expectedToken, req, handler, ytCall>>
  /\ UNCHANGED notServer

\* the YouTube router takes the request to the first route that matches; the
\* handler validates its parameters and calls the YouTube method
YoutubeRouter ==
  /\ stage = "authorized" /\ IsYoutube(req)
  /\ LET path == Below(req.path, YoutubeMount)
         i == Dispatch(YoutubeRoutes, req.method, path)
     IN /\ i # 0
        /\ handler' = RouteName(YoutubeRoutes[i])
        /\ IF YoutubeRoutes[i].required \subseteq req.given
           THEN /\ ytCall' = HandlerCall(YoutubeRoutes[i], path, req.given)
                /\ stage' = "awaiting"
                /\ UNCHANGED resStatus
           ELSE /\ Responds("400")
                /\ UNCHANGED ytCall
  /\ UNCHANGED <<expectedToken, req>>
  /\ UNCHANGED notServer

\* app.get('/api')
ApiDocs ==
  /\ stage = "authorized" /\ IsDocs(req)
  /\ handler' = <<"GET", "api">>
  /\ Responds("200")
  /\ UNCHANGED <<expectedToken, req, ytCall>>
  /\ UNCHANGED notServer

\* the stream router, mounted without authMiddleware
StreamRouter ==
  /\ stage = "received" /\ IsStream(req)
  /\ LET path == Below(req.path, StreamMount)
         i == Dispatch(StreamRoutes, req.method, path)
     IN /\ i # 0
        /\ handler' = <<req.method, "stream">> \o StreamRoutes[i].pattern
        /\ IF StreamRoutes[i].anyOf \cap req.given # {}
           THEN stage' = "awaiting" /\ UNCHANGED resStatus
           ELSE Responds("400")
  /\ UNCHANGED <<expectedToken, req, ytCall>>
  /\ UNCHANGED notServer

\* the 404 handler: no mount point and no route took the request
NotFound ==
  /\ \/ stage = "received" /\ ~IsHealth(req) /\ ~IsYoutube(req) /\ ~IsDocs(req)
        /\ (IsStream(req) =>
              Dispatch(StreamRoutes, req.method, Below(req.path, StreamMount)) = 0)
     \/ stage = "authorized" /\ IsYoutube(req)
        /\ Dispatch(YoutubeRoutes, req.method, Below(req.path, YoutubeMount)) = 0
  /\ Responds("404")
  /\ UNCHANGED <<expectedToken, req, handler, ytCall>>
  /\ UNCHANGED notServer

\* the awaited call returns and the handler answers
CallReturns ==
  /\ stage = "awaiting"
  /\ Responds("200")
  /\ UNCHANGED <<expectedToken, req, handler, ytCall>>
  /\ UNCHANGED notServer

\* the awaited call throws: the router's error handler answers with the upstream
\* status or 500, a stream route's catch with 500 or 502
CallThrows ==
  /\ stage = "awaiting"
  /\ \E status \in (IF IsYoutube(req) THEN {"500", "429"} ELSE {"500", "502"}) :
       Responds(status)
  /\ UNCHANGED <<expectedToken, req, handler, ytCall>>
  /\ UNCHANGED notServer

ServerNext ==
  \/ Health
  \/ AuthMiddleware
  \/ YoutubeRouter
  \/ ApiDocs
  \/ StreamRouter
  \/ NotFound
  \/ CallReturns
  \/ CallThrows

----------------------------------------------------------------------------
(* Page mappers that assemble listings from several entries *)

\* item.id || item.browseId
Key(item) ==
  Or(IF "id" \in DOMAIN item THEN item.id ELSE NULL,
     IF "browseId" \in DOMAIN item THEN item.browseId ELSE NULL)

RECURSIVE DedupFrom(_, _)
DedupFrom(items, seen) ==
  IF items = <<>> THEN <<>>
  ELSE LET key == Key(Head(items))
       IN IF ~Truthy(key) \/ key \in seen THEN DedupFrom(Tail(items), seen)
          ELSE <<Head(items)>> \o DedupFrom(Tail(items), seen \cup {key})

\* the first item only seeds the set of seen keys
deduplicateById_seeded(items) ==
  IF items = <<>> THEN <<>> ELSE DedupFrom(Tail(items), {Key(Head(items))})

deduplicateById(items) == DedupFrom(items, {})

\* a section of a page: a musicCardShelfRenderer (the card itself is a fragment),
\* a musicShelfRenderer or a musicCarouselShelfRenderer, with its contents
PageSection(kind, card, contents) == [kind |-> kind, card |-> card, contents |-> contents]

\* the items parseSearchSummary maps one section to, and the summary it makes of
\* them: a one-element list, or none
SummaryItems(section) ==
  IF section.kind = "musicCardShelfRenderer"
    THEN Compact(<<parseMusicCardShelfRenderer(section.card)>>) \o ListItemsOf(section.contents)
  ELSE IF section.kind = "musicShelfRenderer"
    THEN ListItemsOf(getItems(section.contents))
  ELSE <<>>

SummaryOf(section) ==
  LET uniqueItems == deduplicateById(SummaryItems(section))
  IN IF uniqueItems # <<>>
     THEN <<[title |-> IF section.kind = "musicCardShelfRenderer" THEN "Top result"
                       ELSE "Other",
             items |-> uniqueItems]>>
     ELSE <<>>

RECURSIVE Summaries(_)
Summaries(sections) ==
  IF sections = <<>> THEN <<>> ELSE SummaryOf(Head(sections)) \o Summaries(Tail(sections))

parseSearchSummary(sections) == [summaries |-> Summaries(sections)]

\* the items parseRelatedPage maps, in page order
RECURSIVE RelatedItems(_)
RelatedItems(sections) ==
  IF sections = <<>> THEN <<>>
  ELSE (IF Head(sections).kind = "musicCarouselShelfRenderer"
        THEN CarouselItemsOf(Head(sections).contents) ELSE <<>>)
       \o RelatedItems(Tail(sections))

RECURSIVE OfType(_, _)
OfType(items, type) ==
  IF items = <<>> THEN <<>>
  ELSE (IF Head(items).type = type THEN <<Head(items)>> ELSE <<>>) \o OfType(Tail(items), type)

parseRelatedPage(sections) ==
  LET items == RelatedItems(sections)
  IN [songs |-> OfType(items, "song"), albums |-> OfType(items, "album"),
      artists |-> OfType(items, "artist"), playlists |-> OfType(items, "playlist")]

\* parseArtistSection for each carousel of the artist page, none with a "see
\* more" endpoint
RECURSIVE ArtistSections(_)
ArtistSections(sections) ==
  IF sections = <<>> THEN <<>>
  ELSE (IF Head(sections).kind = "musicCarouselShelfRenderer"
        THEN <<[browseId |-> NULL, items |-> CarouselItemsOf(Head(sections).contents)]>>
        ELSE <<>>)
       \o ArtistSections(Tail(sections))

parseArtistPage(sections) == [hasSections |-> TRUE, sections |-> ArtistSections(sections)]

----------------------------------------------------------------------------
(* parsePlaylistPage *)

\* a text run of a flex column, with the browse id of its navigation endpoint
Run(text, browseId) == [text |-> text, browseId |-> browseId]

IsChannelRun(r) == StartsWith(r.browseId, "UC")
IsAlbumRun(r) == StartsWith(r.browseId, "MPREb")
\* " * " stands for the bullet separator
IsNameRun(r) == Truthy(r.text) /\ r.text # " * " /\ r.text # " & "

\* the artists the song branch of parseMusicResponsiveListItemRenderer reads from
\* the runs of the second column
SongArtists(runs) ==
  LET linked == SelectSeq(runs, IsChannelRun)
      filtered == SelectSeq(runs, IsNameRun)
  IN IF linked # <<>>
       THEN [i \in DOMAIN linked |-> [name |-> linked[i].text, id |-> linked[i].browseId]]
     ELSE IF filtered # <<>>
       THEN <<[name |-> filtered[1].text, id |-> filtered[1].browseId]>>
     ELSE <<>>

\* an entry of the playlist shelf: a list item with the runs of its second column
PlaylistEntry(f, byline) ==
  [isCont |-> FALSE, cir |-> NULL, rk |-> "musicResponsiveListItemRenderer", r |-> f,
   byline |-> byline]

\* the header block: its title and the first run of straplineTextOne
NoHeader == [present |-> FALSE, title |-> NULL, strapline |-> <<>>]
Header(title, strapline) == [present |-> TRUE, title |-> title, strapline |-> strapline]

\* flexColumns.flatMap(runs) of contents[0].musicResponsiveListItemRenderer
AllRuns(contents) ==
  IF contents = <<>> \/ Head(contents).rk # "musicResponsiveListItemRenderer" THEN <<>>
  ELSE (IF Truthy(Head(contents).r.title) THEN <<Run(Head(contents).r.title, NULL)>> ELSE <<>>)
       \o Head(contents).byline

\* page: header, the playlist shelf of secondaryContents (Absent when missing),
\* the section list's continuation and the microformat title
parsePlaylistPage(page, playlistId) ==
  LET playlistShelf == page.shelf
      songList == ListItemsOf(getItems(playlistShelf.items))
      songsContinuation ==
        Or(getContinuation(playlistShelf), getItemsContinuation(playlistShelf.items))
      allRuns == AllRuns(playlistShelf.items)
      albumRun == SelectSeq(allRuns, IsAlbumRun)
      artistRun == SelectSeq(allRuns, IsChannelRun)
  IN IF page.header.present
       THEN [playlist |->
               [id |-> playlistId, title |-> page.header.title,
                author |-> IF page.header.strapline # <<>>
                           THEN [name |-> page.header.strapline[1].text,
                                 id |-> page.header.strapline[1].browseId]
                           ELSE NoItem,
                songCount |-> NULL,
                isEditable |-> page.editable],
             songs |-> songList, songsContinuation |-> songsContinuation,
             continuation |-> page.sectionContinuation]
     ELSE IF songList # <<>> \/ playlistShelf.present
       THEN [playlist |->
               [id |-> playlistId,
                title |-> Or(page.microformatTitle,
                             Or(IF albumRun # <<>> THEN albumRun[1].text ELSE NULL, playlistId)),
                author |-> IF artistRun # <<>>
                           THEN [name |-> artistRun[1].text, id |-> artistRun[1].browseId]
                           ELSE NoItem,
                songCount |-> Len(songList),
                isEditable |-> FALSE],
             songs |-> songList, songsContinuation |-> songsContinuation,
             continuation |-> page.sectionContinuation]
     ELSE NoItem

----------------------------------------------------------------------------
(* parseNextResult and parseTranscript *)

\* an entry of the playlist panel
PanelEntry(f, selected) ==
  [isCont |-> FALSE, cir |-> NULL, rk |-> "playlistPanelVideoRenderer", r |-> f,
   selected |-> selected]

\* contents.map(...).filter((x) => x && x.item): entries of another kind give null
RECURSIVE PanelItems(_)
PanelItems(contents) ==
  IF contents = <<>> THEN <<>>
  ELSE (IF Head(contents).rk = "playlistPanelVideoRenderer"
        THEN <<[item |-> parsePlaylistPanelVideoRenderer(Head(contents).r),
                selected |-> Head(contents).selected]>>
        ELSE <<>>)
       \o PanelItems(Tail(contents))

\* items.findIndex((i) => i.selected), counted from 0; null when there is none
RECURSIVE FindSelected(_, _)
FindSelected(items, n) ==
  IF items = <<>> THEN NULL
  ELSE IF Head(items).selected THEN n
  ELSE FindSelected(Tail(items), n + 1)

\* resp: the panel of a continuation, the panel of the watch-next page, the queue
\* header's subtitle and the endpoints of the second and third tab
parseNextResult(resp) ==
  LET playlistPanelRenderer ==
        IF resp.panelContinuation.present THEN resp.panelContinuation ELSE resp.panel
      items == PanelItems(playlistPanelRenderer.items)
  IN IF ~playlistPanelRenderer.present THEN NoItem
     ELSE IF \E i \in DOMAIN items : items[i].item = Thrown THEN Thrown
     ELSE [title |-> resp.queueTitle,
           items |-> [i \in DOMAIN items |-> items[i].item],
           currentIndex |-> FindSelected(items, 0),
           lyricsEndpoint |-> resp.lyricsEndpoint,
           relatedEndpoint |-> resp.relatedEndpoint,
           continuation |-> getContinuation(playlistPanelRenderer)]

RECURSIVE TrimLeft(_)
TrimLeft(str) ==
  IF Len(str) > 0 /\ SubSeq(str, 1, 1) = " " THEN TrimLeft(SubSeq(str, 2, Len(str))) ELSE str

RECURSIVE TrimRight(_)
TrimRight(str) ==
  IF Len(str) > 0 /\ SubSeq(str, Len(str), Len(str)) = " "
  THEN TrimRight(SubSeq(str, 1, Len(str) - 1)) ELSE str

\* text.replace(/^<note>\s*/, '').replace(/\s*<note>$/, '').trim(), "#" standing for
\* the note sign
StripNotes(text) ==
  LET head == IF Len(text) > 0 /\ SubSeq(text, 1, 1) = "#"
              THEN TrimLeft(SubSeq(text, 2, Len(text))) ELSE text
      tail == IF Len(head) > 0 /\ SubSeq(head, Len(head), Len(head)) = "#"
              THEN TrimRight(SubSeq(head, 1, Len(head) - 1)) ELSE head
  IN TrimLeft(TrimRight(tail))

\* String(n).padStart(width, '0')
PadStart(n, width) ==
  LET digits == ToString(n)
  IN IF Len(digits) >= width THEN digits
     ELSE IF Len(digits) + 1 = width THEN "0" \o digits
     ELSE "00" \o digits

\* one line of the transcript
CueLine(cue) ==
  "[" \o PadStart(cue.startOffsetMs \div 60000, 2) \o ":"
      \o PadStart((cue.startOffsetMs \div 1000) % 60, 2) \o "."
      \o PadStart(cue.startOffsetMs % 1000, 3) \o "]"
      \o StripNotes(cue.text)

\* cueGroups.map(...).filter(Boolean).join: the lines, in order
RECURSIVE CueLines(_)
CueLines(groups) ==
  IF groups = <<>> THEN <<>>
  ELSE (IF Head(groups).hasCue THEN <<CueLine(Head(groups))>> ELSE <<>>)
       \o CueLines(Tail(groups))

parseTranscript(resp) ==
  IF ~resp.cueGroups.present THEN NoItem
  ELSE [lines |-> CueLines(resp.cueGroups.items)]

----------------------------------------------------------------------------
(* The item mappers applied to one renderer fragment *)

Titles == {NULL, "t1"}
VideoIds == {NULL, "v1"}
BrowseIds == {NULL, "MPREb_1", "UC1", "VLPL1", "RDCLAK1", "FEmusic_x"}
PageTypes ==
  {NULL, "MUSIC_PAGE_TYPE_ARTIST", "MUSIC_PAGE_TYPE_ALBUM", "MUSIC_PAGE_TYPE_PLAYLIST"}

\* the renderer fragments the mappers are applied to; a title read from the
\* first column needs a column
Fragments ==
  {[Fragment(t, v, b, pt) EXCEPT !.runs = r, !.badges = bd, !.menuItems = mi,
                                 !.flexColumns = fc] :
     t \in Titles, v \in VideoIds, b \in BrowseIds, pt \in PageTypes,
     r \in ListShapes, bd \in ListShapes, mi \in {"absent", "nullEntry", "notList"},
     fc \in {1, 3}}

\* no mapper applied
MapperIdle ==
  /\ mapFragment = NoRenderer
  /\ mapMapper = "none"
  /\ mapItem = NoItem

MapperInit ==
  /\ mapFragment \in Fragments
  /\ mapMapper = "none"
  /\ mapItem = NoItem

Maps(name, result) ==
  /\ mapMapper = "none"
  /\ mapMapper' = name
  /\ mapItem' = result
  /\ UNCHANGED mapFragment
  /\ UNCHANGED notMapper

MapTwoRowItem == Maps("parseMusicTwoRowItemRenderer", parseMusicTwoRowItemRenderer(mapFragment))

MapResponsiveListItem ==
  Maps("parseMusicResponsiveListItemRenderer", parseMusicResponsiveListItemRenderer(mapFragment))

MapCardShelf == Maps("parseMusicCardShelfRenderer", parseMusicCardShelfRenderer(mapFragment))

MapAlbumSong == Maps("parseAlbumSong", parseAlbumSong(mapFragment))

MapChartItem == Maps("parseChartItem", parseChartItem(mapFragment))

MapPlaylistPanelVideo ==
  Maps("parsePlaylistPanelVideoRenderer", parsePlaylistPanelVideoRenderer(mapFragment))

MapperNext ==
  \/ MapTwoRowItem
  \/ MapResponsiveListItem
  \/ MapCardShelf
  \/ MapAlbumSong
  \/ MapChartItem
  \/ MapPlaylistPanelVideo

----------------------------------------------------------------------------
(* The page mappers applied to one page *)

\* the entries a section carries: two songs, an album, a two-row entry that is
\* none of the known kinds, with and without a browse id, and a song entry with a
\* title and no video id
SectionEntries ==
  {ItemEntry(Fragment("a", "X1", NULL, NULL)),
   ItemEntry(Fragment("b", "X2", NULL, NULL)),
   ItemEntry(Fragment("k", NULL, NULL, NULL)),
   TwoRowEntry(Fragment("c", NULL, "MPREb_1", NULL)),
   TwoRowEntry(Fragment("u", NULL, "FEmusic_x", NULL)),
   TwoRowEntry(Fragment("n", NULL, NULL, NULL))}

\* the top-result cards: a song, and one that is none of the known kinds
Cards == {Fragment("a", "X1", NULL, NULL), Fragment("u", NULL, "FEmusic_x", NULL)}

SectionContents ==
  UNION {[1..n -> SectionEntries] : n \in 0..MaxContents}

PageSections ==
  {PageSection("musicCardShelfRenderer", c, es) : c \in Cards, es \in SectionContents}
  \cup {PageSection(k, NoRenderer, es) :
          k \in {"musicShelfRenderer", "musicCarouselShelfRenderer"}, es \in SectionContents}

Pages == UNION {[1..n -> PageSections] : n \in 0..MaxSections}

NoPageResult == [summaries |-> <<>>]

\* no page mapper applied
PageIdle ==
  /\ pageSections = <<>>
  /\ pageOp = "none"
  /\ pageItems = <<>>
  /\ pageResult = NoPageResult

PageInit ==
  /\ pageSections \in Pages
  /\ pageOp = "none"
  /\ pageItems = <<>>
  /\ pageResult = NoPageResult

RECURSIVE AllSummaryItems(_)
AllSummaryItems(sections) ==
  IF sections = <<>> THEN <<>>
  ELSE SummaryItems(Head(sections)) \o AllSummaryItems(Tail(sections))

SearchSummary ==
  /\ pageOp = "none"
  /\ pageOp' = "parseSearchSummary"
  /\ pageItems' = AllSummaryItems(pageSections)
  /\ pageResult' = parseSearchSummary(pageSections)
  /\ UNCHANGED pageSections
  /\ UNCHANGED notPage

RelatedPage ==
  /\ pageOp = "none"
  /\ pageOp' = "parseRelatedPage"
  /\ pageItems' = RelatedItems(pageSections)
  /\ pageResult' = parseRelatedPage(pageSections)
  /\ UNCHANGED pageSections
  /\ UNCHANGED notPage

\* artistAlbums on an artist page whose carousels have no "see more" endpoint: the
\* listing is taken from the section that holds albums
ArtistAlbumsListing ==
  /\ pageOp = "none"
  /\ pageOp' = "artistAlbums"
  /\ LET found == FindAlbumsSection(parseArtistPage(pageSections).sections)
     IN pageItems' = IF found = <<>> THEN <<>> ELSE found[1].items
  /\ pageResult' = artistAlbums(parseArtistPage(pageSections), EmptyResponse)
  /\ UNCHANGED pageSections
  /\ UNCHANGED notPage

\* deduplicateById on the items of one section of a search page
Deduplicate ==
  /\ pageOp = "none"
  /\ \E i \in DOMAIN pageSections :
       /\ pageItems' = SummaryItems(pageSections[i])
       /\ pageResult' = [items |-> deduplicateById(SummaryItems(pageSections[i]))]
  /\ pageOp' = "deduplicateById"
  /\ UNCHANGED pageSections
  /\ UNCHANGED notPage

PageNext ==
  \/ SearchSummary
  \/ RelatedPage
  \/ ArtistAlbumsListing
  \/ Deduplicate

----------------------------------------------------------------------------
(* deduplicateById applied to one list of items *)

\* the entries of the list: those of a section, and a second entry for "X1"
DedupEntries == SectionEntries \cup {ItemEntry(Fragment("z", "X1", NULL, NULL))}

DedupInit ==
  /\ pageSections = <<>>
  /\ pageOp = "none"
  /\ \E n \in 0..MaxItems : \E es \in [1..n -> DedupEntries] : pageItems = CarouselItemsOf(es)
  /\ pageResult = NoPageResult

DeduplicateList ==
  /\ pageOp = "none"
  /\ pageOp' = "deduplicateById"
  /\ pageResult' = [items |-> deduplicateById(pageItems)]
  /\ UNCHANGED <<pageSections, pageItems>>
  /\ UNCHANGED notPage

----------------------------------------------------------------------------
(* parsePlaylistPage applied to one playlist page *)

Bylines ==
  {<<>>,
   <<Run("A", "UC1")>>,
   <<Run("A", NULL)>>,
   <<Run("Alb", "MPREb_1"), Run(" * ", NULL), Run("A", "UC1")>>,
   <<Run("A", "UC1"), Run(" & ", NULL), Run("B", "UC2")>>}

PlaylistEntries ==
  {PlaylistEntry(Fragment(t, v, NULL, NULL), b) :
     t \in {NULL, "s"}, v \in {NULL, "v1"}, b \in Bylines}
  \cup {TwoRowEntry(Fragment("c", NULL, "MPREb_1", NULL)), ContEntry("Tc")}

PlaylistShelves ==
  {Absent} \cup
  {Shape(es, c) : es \in UNION {[1..n -> PlaylistEntries] : n \in 0..MaxShelfEntries},
                  c \in {NULL, "Ts"}}

PlaylistPages ==
  [header : {NoHeader, Header("H", <<>>), Header("H", <<Run("O", "UC9")>>)},
   editable : BOOLEAN,
   shelf : PlaylistShelves,
   sectionContinuation : {NULL, "Tl"},
   microformatTitle : {NULL, "M"}]

PlaylistInit ==
  /\ pageSections \in PlaylistPages
  /\ pageOp = "none"
  /\ pageItems = <<>>
  /\ pageResult = NoPageResult

PlaylistPage ==
  /\ pageOp = "none"
  /\ pageOp' = "parsePlaylistPage"
  /\ pageResult' = parsePlaylistPage(pageSections, "PL1")
  /\ UNCHANGED <<pageSections, pageItems>>
  /\ UNCHANGED notPage

----------------------------------------------------------------------------
(* The page mappers applied to one envelope, with or without its nodes *)

PanelEntries ==
  {PanelEntry(Fragment("a", "X1", NULL, NULL), sel) : sel \in BOOLEAN}
  \cup {PanelEntry([Fragment("b", "X2", NULL, NULL) EXCEPT !.menuItems = "nullEntry"], FALSE),
        ContEntry("Tc")}

Panels ==
  {Absent} \cup
  {Shape(es, c) : es \in UNION {[1..n -> PanelEntries] : n \in 0..MaxPanelEntries},
                  c \in {NULL, "Tp"}}

Cues ==
  {[hasCue |-> FALSE, startOffsetMs |-> 0, text |-> ""],
   [hasCue |-> TRUE, startOffsetMs |-> 0, text |-> ""],
   [hasCue |-> TRUE, startOffsetMs |-> 61500, text |-> "# la #"],
   [hasCue |-> TRUE, startOffsetMs |-> 600007, text |-> " la"]}

CueGroups ==
  {Absent} \cup {Shape(gs, NULL) : gs \in UNION {[1..n -> Cues] : n \in 0..MaxCues}}

AlbumShelves ==
  {Absent, Shape(<<>>, NULL), Shape(<<>>, "Ts"),
   Shape(<<ItemEntry(Fragment("a", "X1", NULL, NULL))>>, "Ts"),
   Shape(<<ItemEntry(Fragment("a", "X1", NULL, NULL)), ContEntry("Tc")>>, NULL)}

Envelopes ==
  [page : AlbumShelves, panelContinuation : {Absent, Shape(<<>>, "Tq")}, panel : Panels,
   queueTitle : {NULL}, lyricsEndpoint : {NULL, "L"}, relatedEndpoint : {NULL},
   cueGroups : CueGroups]

EnvelopeInit ==
  /\ pageSections \in Envelopes
  /\ pageOp = "none"
  /\ pageItems = <<>>
  /\ pageResult = NoPageResult

Applies(name, result) ==
  /\ pageOp = "none"
  /\ pageOp' = name
  /\ pageResult' = result
  /\ UNCHANGED <<pageSections, pageItems>>
  /\ UNCHANGED notPage

NextResult == Applies("parseNextResult", parseNextResult(pageSections))

Transcript == Applies("parseTranscript", parseTranscript(pageSections))

AlbumSongsPage == Applies("parseAlbumSongs", parseAlbumSongs(pageSections))

EnvelopeNext ==
  \/ NextResult
  \/ Transcript
  \/ AlbumSongsPage

----------------------------------------------------------------------------
(* _withRetry and the requests _post sends through it *)

\* maxAttempts = 3, initialDelay = 500
DefaultMaxAttempts == 3
DefaultInitialDelay == 500

MutatingOperations ==
  {"createPlaylist", "addToPlaylist", "removeFromPlaylist", "renamePlaylist",
   "deletePlaylist", "likeVideo", "likePlaylist", "subscribeChannel", "feedback"}

Operations == MutatingOperations \cup {"search", "browse"}

\* what one request ends with: response data, an HTTP error status or a timeout
Responses == {"data"}
Failures == {"status", "timeout"}

NoOutcome == [ok |-> TRUE, value |-> NULL, attempt |-> 0]

RetryIdle ==
  /\ operation = "none"
  /\ maxAttempts = 0 /\ initialDelay = 0
  /\ attempt = 0 /\ delay = 0
  /\ retryPc = "idle"
  /\ invoked = 0
  /\ attemptLog = <<>>
  /\ waited = <<>>
  /\ retryOutcome = NoOutcome

\* let delay = initialDelay; attempt = 0
RetryInit ==
  /\ \/ operation \in Operations
        /\ maxAttempts = DefaultMaxAttempts /\ initialDelay = DefaultInitialDelay
     \/ operation = "fn"
        /\ maxAttempts \in 0..MaxRetryAttempts /\ initialDelay \in {0, 100, 500}
  /\ attempt = 0 /\ delay = initialDelay
  /\ retryPc = "loop"
  /\ invoked = 0
  /\ attemptLog = <<>>
  /\ waited = <<>>
  /\ retryOutcome = NoOutcome

\* the delay stays what it was
NextDelay_constant(d) == d

\* delay *= 2
NextDelay(d) == d * 2

\* attempt < maxAttempts: fn() is called, the request goes out
Invoke ==
  /\ retryPc = "loop" /\ attempt < maxAttempts
  /\ retryPc' = "awaiting"
  /\ invoked' = invoked + 1
  /\ UNCHANGED <<operation, maxAttempts, initialDelay, attempt, delay, attemptLog, waited,
                 retryOutcome>>
  /\ UNCHANGED notRetry

\* return await fn()
Resolves ==
  /\ retryPc = "awaiting"
  /\ \E v \in Responses :
       LET ended == [ok |-> TRUE, value |-> v, attempt |-> attempt]
       IN /\ attemptLog' = Append(attemptLog, ended)
          /\ retryOutcome' = ended
  /\ retryPc' = "returned"
  /\ UNCHANGED <<operation, maxAttempts, initialDelay, attempt, delay, invoked, waited>>
  /\ UNCHANGED notRetry

\* catch (err): rethrown on the last attempt, else the timer is set
Rejects ==
  /\ retryPc = "awaiting"
  /\ \E e \in Failures :
       LET ended == [ok |-> FALSE, value |-> e, attempt |-> attempt]
       IN /\ attemptLog' = Append(attemptLog, ended)
          /\ IF attempt >= maxAttempts - 1
             THEN /\ retryPc' = "rejected"
                  /\ retryOutcome' = ended
                  /\ UNCHANGED waited
             ELSE /\ retryPc' = "sleeping"
                  /\ waited' = Append(waited, delay)
                  /\ UNCHANGED retryOutcome
  /\ UNCHANGED <<operation, maxAttempts, initialDelay, attempt, delay, invoked>>
  /\ UNCHANGED notRetry

\* the timer fires: delay *= 2, attempt++
TimerFires ==
  /\ retryPc = "sleeping"
  /\ delay' = NextDelay(delay)
  /\ attempt' = attempt + 1
  /\ retryPc' = "loop"
  /\ UNCHANGED <<operation, maxAttempts, initialDelay, invoked, attemptLog, waited,
                 retryOutcome>>
  /\ UNCHANGED notRetry

\* the loop ends without an attempt: the function returns undefined
FallsThrough ==
  /\ retryPc = "loop" /\ attempt >= maxAttempts
  /\ retryPc' = "returned"
  /\ retryOutcome' = NoOutcome
  /\ UNCHANGED <<operation, maxAttempts, initialDelay, attempt, delay, invoked, attemptLog,
                 waited>>
  /\ UNCHANGED notRetry

RetryNext ==
  \/ Invoke
  \/ Resolves
  \/ Rejects
  \/ TimerFires
  \/ FallsThrough

----------------------------------------------------------------------------
(* The stream routes: GET /api/stream/proxy and GET /api/stream/play *)

StreamIdle ==
  /\ streamRoute = "none"
  /\ streamQuery = [given |-> FALSE, range |-> FALSE]
  /\ streamPc = "done"
  /\ clientConnected = FALSE
  /\ closeListener = FALSE
  /\ upstreamStream = "none"
  /\ piped = 0
  /\ streamStatus = "none"

\* the request has been received
StreamInit ==
  /\ streamRoute \in {"proxy", "play"}
  /\ streamQuery \in [given : BOOLEAN, range : BOOLEAN]
  /\ streamPc = "received"
  /\ clientConnected = TRUE
  /\ closeListener = FALSE
  /\ upstreamStream = "none"
  /\ piped = 0
  /\ streamStatus = "none"

StreamAnswers(status) ==
  /\ streamPc' = "done"
  /\ streamStatus' = status

\* the handler up to its first await: 400 without the parameter, else /proxy opens
\* the upstream connection and /play starts yt-dlp
HandlerStarts ==
  /\ streamPc = "received"
  /\ IF ~streamQuery.given THEN StreamAnswers("400")
     ELSE /\ streamPc' = IF streamRoute = "play" THEN "extracting" ELSE "connecting"
          /\ UNCHANGED streamStatus
  /\ UNCHANGED <<streamRoute, streamQuery, clientConnected, closeListener, upstreamStream,
                 piped>>
  /\ UNCHANGED notStream

\* runYtDlp resolves: with a URL the upstream connection is opened, without one
\* the answer is 502
ExtractionReturns ==
  /\ streamPc = "extracting"
  /\ \E urls \in 0..1 :
       IF urls = 0 THEN StreamAnswers("502")
       ELSE streamPc' = "connecting" /\ UNCHANGED streamStatus
  /\ UNCHANGED <<streamRoute, streamQuery, clientConnected, closeListener, upstreamStream,
                 piped>>
  /\ UNCHANGED notStream

\* runYtDlp rejects: the catch block answers 500
ExtractionFails ==
  /\ streamPc = "extracting"
  /\ StreamAnswers("500")
  /\ UNCHANGED <<streamRoute, streamQuery, clientConnected, closeListener, upstreamStream,
                 piped>>
  /\ UNCHANGED notStream

\* axios resolves with the upstream stream: headers and status are set, the stream
\* is piped to res and only now the "close" listener is registered
Connects ==
  /\ streamPc = "connecting"
  /\ upstreamStream' = "open"
  /\ closeListener' = TRUE
  /\ streamPc' = "piping"
  /\ \E upstreamStatus \in (IF streamQuery.range THEN {"200", "206"} ELSE {"200"}) :
       streamStatus' = upstreamStatus
  /\ UNCHANGED <<streamRoute, streamQuery, clientConnected, piped>>
  /\ UNCHANGED notStream

\* axios rejects: the catch block answers 502 on /proxy and 500 on /play
ConnectFails ==
  /\ streamPc = "connecting"
  /\ StreamAnswers(IF streamRoute = "proxy" THEN "502" ELSE "500")
  /\ UNCHANGED <<streamRoute, streamQuery, clientConnected, closeListener, upstreamStream,
                 piped>>
  /\ UNCHANGED notStream

\* a chunk goes from the upstream stream to the client
PipesChunk ==
  /\ streamPc = "piping" /\ upstreamStream = "open" /\ clientConnected
  /\ piped < MaxChunks
  /\ piped' = piped + 1
  /\ UNCHANGED <<streamRoute, streamQuery, streamPc, clientConnected, closeListener,
                 upstreamStream, streamStatus>>
  /\ UNCHANGED notStream

\* the upstream stream ends while the client reads: pipe ends res
StreamEnds ==
  /\ streamPc = "piping" /\ upstreamStream = "open" /\ clientConnected
  /\ upstreamStream' = "ended"
  /\ streamPc' = "done"
  /\ UNCHANGED <<streamRoute, streamQuery, clientConnected, closeListener, piped,
                 streamStatus>>
  /\ UNCHANGED notStream

\* the upstream stream emits "error": the stream is destroyed and the handler ends res
StreamErrors ==
  /\ streamPc = "piping" /\ upstreamStream = "open"
  /\ upstreamStream' = "destroyed"
  /\ streamPc' = "done"
  /\ UNCHANGED <<streamRoute, streamQuery, clientConnected, closeListener, piped,
                 streamStatus>>
  /\ UNCHANGED notStream

\* the client disconnects: req emits "close" once, to the listeners registered by
\* then; the listener destroys the upstream stream
ClientDisconnects ==
  /\ streamRoute # "none"
  /\ clientConnected
  /\ clientConnected' = FALSE
  /\ IF closeListener /\ upstreamStream = "open"
     THEN upstreamStream' = "destroyed" /\ streamPc' = "done"
     ELSE UNCHANGED <<upstreamStream, streamPc>>
  /\ UNCHANGED <<streamRoute, streamQuery, closeListener, piped, streamStatus>>
  /\ UNCHANGED notStream

\* what the process does by itself once it can: the handler runs, yt-dlp and the
\* connection attempt settle
StreamProgress ==
  \/ HandlerStarts
  \/ ExtractionReturns
  \/ ExtractionFails
  \/ Connects
  \/ ConnectFails

StreamNext ==
  \/ StreamProgress
  \/ PipesChunk
  \/ StreamEnds
  \/ StreamErrors
  \/ ClientDisconnects

----------------------------------------------------------------------------
(* Specifications *)

InitAlbum == AlbumInit /\ ResumeIdle /\ ClientIdle /\ ServerIdle /\ MapperIdle /\ PageIdle /\ RetryIdle
    /\ StreamIdle

SpecAlbum == InitAlbum /\ [][AlbumNext]_vars

\* the event loop runs every continuation of the promise chain
FairSpecAlbum == InitAlbum /\ [][AlbumNext]_vars /\ WF_vars(AlbumNext)

InitResume == AlbumIdle /\ ResumeInit /\ ClientIdle /\ ServerIdle /\ MapperIdle /\ PageIdle /\ RetryIdle
    /\ StreamIdle

SpecResume == InitResume /\ [][ResumeNext]_vars

InitClient == AlbumIdle /\ ResumeIdle /\ ClientInit /\ ServerIdle /\ MapperIdle /\ PageIdle /\ RetryIdle
    /\ StreamIdle

SpecClient == InitClient /\ [][ClientNext]_vars

\* the artistAlbumsContinuation calls together with the other operations
SharedNext ==
  \/ ClientNext
  \/ \E c \in Calls : OtherRequest(c)

SpecShared == InitClient /\ [][SharedNext]_vars

InitServer == AlbumIdle /\ ResumeIdle /\ ClientIdle /\ ServerInit /\ MapperIdle /\ PageIdle /\ RetryIdle
    /\ StreamIdle

SpecServer == InitServer /\ [][ServerNext]_vars

InitMapper == AlbumIdle /\ ResumeIdle /\ ClientIdle /\ ServerIdle /\ MapperInit /\ PageIdle /\ RetryIdle
    /\ StreamIdle

SpecMapper == InitMapper /\ [][MapperNext]_vars

InitPage == AlbumIdle /\ ResumeIdle /\ ClientIdle /\ ServerIdle /\ MapperIdle /\ PageInit /\ RetryIdle
    /\ StreamIdle

SpecPage == InitPage /\ [][PageNext]_vars

InitDedup == AlbumIdle /\ ResumeIdle /\ ClientIdle /\ ServerIdle /\ MapperIdle /\ DedupInit /\ RetryIdle
    /\ StreamIdle

SpecDedup == InitDedup /\ [][DeduplicateList]_vars

InitPlaylist ==
  AlbumIdle /\ ResumeIdle /\ ClientIdle /\ ServerIdle /\ MapperIdle /\ PlaylistInit /\ RetryIdle
    /\ StreamIdle

SpecPlaylist == InitPlaylist /\ [][PlaylistPage]_vars

InitEnvelope ==
  AlbumIdle /\ ResumeIdle /\ ClientIdle /\ ServerIdle /\ MapperIdle /\ EnvelopeInit /\ RetryIdle
    /\ StreamIdle

SpecEnvelope == InitEnvelope /\ [][EnvelopeNext]_vars

InitRetry ==
  AlbumIdle /\ ResumeIdle /\ ClientIdle /\ ServerIdle /\ MapperIdle /\ PageIdle /\ RetryInit
    /\ StreamIdle

SpecRetry == InitRetry /\ [][RetryNext]_vars

InitStream ==
  AlbumIdle /\ ResumeIdle /\ ClientIdle /\ ServerIdle /\ MapperIdle /\ PageIdle /\ RetryIdle
    /\ StreamInit

SpecStream == InitStream /\ [][StreamNext]_vars

\* the event loop runs the handler, and yt-dlp and the connection attempt settle
FairSpecStream == InitStream /\ [][StreamNext]_vars /\ WF_vars(StreamProgress)

----------------------------------------------------------------------------
(* Claims about albumSongs *)

AlbumEnded == albumPc \in {"done", "failed"}

\* C1: whatever the upstream answers (a token echoed forever included), a call to
\* albumSongs ends, and it issues at most maxRequests resume calls after the first
\* page.
C1_TerminatesWithinCap == [](Len(sent) <= maxRequests) /\ <>AlbumEnded

\* the cap itself ended a walk whose tokens were all new
C1_Witness ==
  /\ albumPc = "done"
  /\ requestCount = maxRequests
  /\ Truthy(continuation)
  /\ continuation \notin seenContinuations

\* C2: within one walk no continuation token is sent upstream twice.
C2_NoTokenSentTwice == \A i, j \in DOMAIN sent : i # j => sent[i] # sent[j]

\* a response handed back a token already used, and the walk ended on it
C2_Witness ==
  /\ albumPc = "done"
  /\ requestCount < maxRequests
  /\ Truthy(continuation)
  /\ continuation \in Range(sent)

\* what a resumed page carries, read in either known wire shape
PageEntries(r) == r.append.items \o r.playlistShelf.items
PageYield(r) == Len(ListItemsOf(getItems(PageEntries(r))))
PageToken(r) == Or(getContinuation(r.playlistShelf), getItemsContinuation(r.append.items))

\* C3: after a resumed page that yields zero items but carries a token, the walk
\* issues no further resume call.
C3_ZeroYieldExhausts ==
  [][(albumPc = "loop" /\ requestCount >= 1
      /\ PageYield(response) = 0 /\ Truthy(PageToken(response)))
     => sent' = sent]_vars

KnownShapes == {"append", "playlistShelf"}

RECURSIVE SongIds(_)
SongIds(list) == IF list = <<>> THEN <<>> ELSE <<Head(list).id>> \o SongIds(Tail(list))

\* C4: for a chain of pages shorter than the cap, without repeated tokens, each
\* resumed page in a known wire shape, albumSongs returns the songs of every page
\* of the chain in page order.
C4_AllSongsFetched ==
  (albumPc = "done" /\ ~echoed /\ minted < maxRequests /\ walkShapes \subseteq KnownShapes)
    => (SongIds(songs) = carried /\ ~Truthy(PageToken(response)))

----------------------------------------------------------------------------
(* Claims about the resume operations *)

ResumeOps ==
  {"searchContinuation", "artistItemsContinuation", "artistAlbumsContinuation",
   "playlistContinuation", "libraryContinuation", "homeContinuation"}

\* the listing a resumed page reports
ResultItems(op, result) ==
  CASE op = "playlistContinuation" -> result.songs
    [] op = "homeContinuation" -> result.sections
    [] op \in {"artistAlbumsContinuation", "artistAlbums"} -> result.albums
    [] OTHER -> result.items

\* C5: every resume operation reports continuation null for a resumed page that
\* yields zero items, whatever token the upstream response carries.
C5_ZeroItemsContinuationNull ==
  (rOp \in ResumeOps /\ ResultItems(rOp, rResult) = <<>>) => rResult.continuation = NULL

\* C8: a result of artistAlbums or artistAlbumsContinuation with a non-null
\* continuation also has a non-null visitorData.
C8_TokenAndVisitorDataTogether ==
  (rOp \in {"artistAlbums", "artistAlbumsContinuation"} /\ Truthy(rResult.continuation))
    => Truthy(rResult.visitorData)

\* the four wire shapes artistItemsContinuation reads, by the envelope field that
\* carries them
CodeOrder == <<"grid", "playlistShelf", "sectionList", "append">>
ClaimedOrder == <<"playlistShelf", "grid", "sectionList", "append">>

ShapesPresent(r) == {s \in Range(CodeOrder) : r[s].present}

RECURSIVE EarliestPresent(_, _)
EarliestPresent(order, r) ==
  IF order = <<>> THEN "none"
  ELSE IF r[Head(order)].present THEN Head(order)
  ELSE EarliestPresent(Tail(order), r)

\* the response with every wire shape but s removed
Only(r, s) ==
  [f \in DOMAIN r |-> IF f \in Range(CodeOrder) /\ f # s THEN Absent ELSE r[f]]

\* the container an item or a token came from, read off its marker letter
ItemOrigins(items) == {SubSeq(items[i].title, 1, 1) : i \in DOMAIN items}
TokenOrigins(tok) == IF Truthy(tok) THEN {SubSeq(tok, 2, 2)} ELSE {}
Marker(s) == SubSeq(s, 1, 1)

TakenFrom(order) ==
  LET s == EarliestPresent(order, rPayload)
  IN /\ ItemOrigins(rResult.items) \cup TokenOrigins(rResult.continuation) \subseteq {Marker(s)}
     /\ rResult = artistItemsContinuation(Only(rPayload, s))

\* C9 (as claimed): of several shapes in one response, artistItemsContinuation takes
\* the items and the next token from the earliest in the order playlist shelf,
\* grid, section list, append actions.
C9_ShelfBeforeGrid ==
  (rOp = "artistItemsContinuation" /\ Cardinality(ShapesPresent(rPayload)) > 1)
    => TakenFrom(ClaimedOrder)

\* C9 (amended): of several shapes in one response, artistItemsContinuation takes
\* the items and the next token from the earliest in the order grid, playlist
\* shelf, section list, append actions.
C9_GridBeforeShelf ==
  (rOp = "artistItemsContinuation" /\ Cardinality(ShapesPresent(rPayload)) > 1)
    => TakenFrom(CodeOrder)

\* a response with a grid and a playlist shelf, both with items, was resumed
C9_Witness ==
  /\ rOp = "artistItemsContinuation"
  /\ FromGrid(rPayload).items # <<>>
  /\ FromPlaylistShelf(rPayload).items # <<>>
  /\ rResult.items # <<>>

FromShape(s, r) ==
  CASE s = "grid" -> FromGrid(r)
    [] s = "playlistShelf" -> FromPlaylistShelf(r)
    [] s = "sectionList" -> FromSectionList(r)
    [] OTHER -> FromAppend(r)

RECURSIVE FirstYielding(_, _)
FirstYielding(order, r) ==
  IF order = <<>> THEN "none"
  ELSE IF r[Head(order)].present /\ FromShape(Head(order), r).items # <<>> THEN Head(order)
  ELSE FirstYielding(Tail(order), r)

\* C10: when an earlier shape of the response is present but yields no item and a
\* later one yields at least one, artistItemsContinuation returns the page of the
\* first shape that yields.
C10_FirstYieldingShapeWins ==
  LET first == EarliestPresent(ClaimedOrder, rPayload)
      yielding == FirstYielding(ClaimedOrder, rPayload)
  IN (rOp = "artistItemsContinuation" /\ yielding # "none" /\ first # yielding)
       => rResult = FromShape(yielding, rPayload)

----------------------------------------------------------------------------
(* Claims about the shared client and the artist-albums continuation route *)

Began(c) == calls[c].pc \in {"awaiting", "done", "failed"}

\* C6: once every one of two or more artistAlbumsContinuation calls, each given its
\* own visitorData, has completed, the client's visitorData is the value it had
\* before the first of them began.
C6_VisitorDataRestored ==
  (/\ Cardinality({c \in Calls : Began(c)}) >= 2
   /\ \A c \in Calls : Began(c) => calls[c].pc # "awaiting" /\ Truthy(calls[c].visitorData))
    => innerTubeVisitorData = configuredVisitorData

NoVisitorData(c) ==
  calls[c].pc # "idle" /\ Truthy(calls[c].token) /\ ~Truthy(calls[c].visitorData)

\* C7 (as claimed): a continuation call made with a token and no visitorData is not
\* turned down, at the method or at the route.
C7_NeverRejected == \A c \in Calls : NoVisitorData(c) => calls[c].pc # "rejected"

\* C7 (amended): a call of the method with a token and no visitorData sends the
\* request under the client's visitorData as it stands and, when the upstream
\* answers, returns a page; the route answers such a request 400 without calling
\* the method.
C7_MethodDegradesRouteRejects ==
  \A c \in Calls :
    NoVisitorData(c) =>
      /\ calls[c].entry = "method" =>
           /\ Began(c)
           /\ calls[c].requestVisitorData = calls[c].originalVisitorData
           /\ calls[c].pc = "done" =>
                (Truthy(calls[c].result.continuation) => calls[c].result.albums # <<>>)
      /\ calls[c].entry = "route" =>
           /\ calls[c].pc = "rejected"
           /\ calls[c].status = "400"

\* the method returned a page to a call without visitorData, and the route turned
\* such a request down
C7_Witness ==
  \E c, d \in Calls :
    /\ NoVisitorData(c) /\ calls[c].entry = "method" /\ calls[c].pc = "done"
    /\ calls[c].result.albums # <<>>
    /\ NoVisitorData(d) /\ calls[d].entry = "route" /\ calls[d].pc = "rejected"

----------------------------------------------------------------------------
(* Claims about the server *)

ContinuationRequest(segment) ==
  /\ req.method = "GET"
  /\ req.path = YoutubeMount \o <<segment, "continuation">>
  /\ "token" \in req.given

\* C11: GET /api/youtube/playlist/continuation?token=T is handled by the playlist
\* continuation route and calls playlistContinuation(T), and GET
\* /api/youtube/library/continuation?token=T by the library continuation route,
\* calling libraryContinuation(T); neither is taken by /playlist/:playlistId or
\* /library/:browseId.
C11_ContinuationRoutesReached ==
  \A segment \in {"playlist", "library"} :
    (ContinuationRequest(segment) /\ handler # <<>>)
      => /\ handler = <<"GET", segment, "continuation">>
         /\ ytCall = [method |-> segment \o "Continuation", arg |-> ParamValue("token")]

Protected(r) == IsYoutube(r) \/ IsDocs(r)

\* the Authorization header is the scheme Bearer (in any letter case, as HTTP
\* scheme names are), one space, and a token without spaces
BearerSchemes == {"Bearer", "bearer", "BEARER"}
HeaderTokens == {"s3cret", "wrong", ""}
BearerHeader(header, token) == \E scheme \in BearerSchemes : header = scheme \o " " \o token
WellFormed(header) == \E token \in HeaderTokens : BearerHeader(header, token)

PublicRoute(r) ==
  \/ IsHealth(r)
  \/ /\ IsStream(r) /\ r.method = "GET"
     /\ Below(r.path, StreamMount) \in {<<"extract">>, <<"info">>, <<"proxy">>, <<"play">>}

C13_MissingParameterIs400 ==
  \A i \in DOMAIN YoutubeRoutes :
    (/\ IsYoutube(req)
     /\ req.method = YoutubeRoutes[i].method
     /\ Below(req.path, YoutubeMount) = YoutubeRoutes[i].pattern
     /\ ~(YoutubeRoutes[i].required \subseteq req.given)
     /\ handler # <<>>)
      => /\ ytCall = NoCall
         /\ resStatus = "400"

\* C24: when the upstream call a /api/youtube handler awaits fails, the answer
\* has status 500, whatever status the upstream returned.
C24_UpstreamFailureIs500 ==
  (/\ IsYoutube(req)
   /\ ytCall # NoCall
   /\ stage = "responded"
   /\ resStatus # "200")
    => resStatus = "500"

----------------------------------------------------------------------------
(* Claims about the item mappers *)

\* the decision order of the shape detector, first match wins
Classify(f) ==
  IF StartsWith(f.browseId, "MPREb") THEN "album"
  ELSE IF StartsWith(f.browseId, "UC") THEN "artist"
  ELSE IF StartsWith(f.browseId, "VL") \/ StartsWith(f.browseId, "RDCLAK") THEN "playlist"
  ELSE IF Truthy(f.videoId) \/ Truthy(f.title) THEN "song"
  ELSE "unknown"

Identified(f) == Truthy(f.videoId) \/ Truthy(f.browseId) \/ Truthy(f.title)

WellShaped(f) == ~Throws(f.runs) /\ ~Throws(f.badges) /\ ~Throws(f.menuItems)

\* C14: both item mappers classify a fragment by one decision order, first match
\* wins: album prefix, else artist prefix, else one of the two playlist prefixes,
\* else a track id or a title gives Song, else Unknown; a browse id with the artist
\* prefix together with a track id gives Artist.
C14_OneDecisionOrder ==
  (/\ mapMapper \in {"parseMusicTwoRowItemRenderer", "parseMusicResponsiveListItemRenderer"}
   /\ Identified(mapFragment) /\ WellShaped(mapFragment)
   /\ mapFragment.pageType = NULL)
    => mapItem.type = Classify(mapFragment)

\* C15: a mapper applied to a fragment in which videoId, browseId and title are all
\* absent returns null and does not throw.
C15_NothingIdentifyingGivesNull ==
  (/\ mapMapper \in {"parseMusicTwoRowItemRenderer", "parseMusicResponsiveListItemRenderer",
                     "parseMusicCardShelfRenderer", "parsePlaylistPanelVideoRenderer"}
   /\ ~Identified(mapFragment))
    => mapItem = NoItem

\* C16: a mapper applied to a fragment in which videoId, browseId or title is
\* present returns an item, not null.
C16_NullOnlyWhenNothingIdentifying ==
  (/\ mapMapper \in {"parseMusicResponsiveListItemRenderer", "parseMusicTwoRowItemRenderer",
                     "parseAlbumSong", "parseChartItem"}
   /\ Identified(mapFragment))
    => mapItem # NoItem

\* C17: parseMusicCardShelfRenderer, parseAlbumSong, parseChartItem and
\* parsePlaylistPanelVideoRenderer raise no exception, whatever the shape of the
\* fragment's optional fields.
C17_MappersNeverThrow ==
  mapMapper \in {"parseMusicCardShelfRenderer", "parseAlbumSong", "parseChartItem",
                 "parsePlaylistPanelVideoRenderer"}
    => mapItem # Thrown

----------------------------------------------------------------------------
(* Claims about the page mappers *)

RECURSIVE SummaryEntries(_)
SummaryEntries(summaries) ==
  IF summaries = <<>> THEN <<>>
  ELSE Head(summaries).items \o SummaryEntries(Tail(summaries))

\* the items a page mapper's result lists
Listed ==
  IF pageOp = "parseSearchSummary" THEN SummaryEntries(pageResult.summaries)
  ELSE IF pageOp = "parseRelatedPage"
    THEN pageResult.songs \o pageResult.albums \o pageResult.artists \o pageResult.playlists
  ELSE IF pageOp = "artistAlbums" THEN pageResult.albums
  ELSE pageResult.items

\* C18: an item the mappers classify as 'unknown' is never dropped: it is among
\* the items the related page, the search summary and the artist albums listing
\* return.
C18_UnknownNeverDropped ==
  pageOp \in {"parseRelatedPage", "parseSearchSummary", "artistAlbums"}
    => \A i \in DOMAIN pageItems :
         pageItems[i].type = "unknown" => pageItems[i] \in Range(Listed)

\* the shelf section carries an entry with the video id of the card
CardAndShelfShare(card, shelf) ==
  /\ card.kind = "musicCardShelfRenderer"
  /\ shelf.kind = "musicShelfRenderer"
  /\ Truthy(card.card.videoId)
  /\ \E e \in DOMAIN shelf.contents : ListItemOf(shelf.contents[e]).videoId = card.card.videoId

\* C19: when the top-result card and a shelf of a search page carry the same
\* identifier, the whole search summary lists that identifier exactly once, not
\* once per section.
C19_OneEntryPerIdInSummary ==
  pageOp = "parseSearchSummary"
    => \A c, sh \in DOMAIN pageSections :
         CardAndShelfShare(pageSections[c], pageSections[sh])
           => Cardinality({i \in DOMAIN Listed :
                             Key(Listed[i]) = pageSections[c].card.videoId}) = 1

\* the items that are not a later repeat of an identifier seen before
RECURSIVE WithoutRepeats(_, _)
WithoutRepeats(items, n) ==
  IF n = 0 THEN <<>>
  ELSE WithoutRepeats(items, n - 1)
       \o (IF Truthy(Key(items[n])) /\ \E j \in 1..(n - 1) : Key(items[j]) = Key(items[n])
           THEN <<>> ELSE <<items[n]>>)

\* C20: deduplicateById returns, in input order, the first item of every
\* identifier (id, else browseId) and removes nothing but later repeats of an
\* identifier already seen.
C20_OnlyLaterRepeatsRemoved ==
  pageOp = "deduplicateById" => pageResult.items = WithoutRepeats(pageItems, Len(pageItems))

\* C21: deduplicateById is idempotent: applied to its own result it returns that
\* result, the same items in the same order.
C21_DedupIdempotent ==
  pageOp = "deduplicateById" => deduplicateById(pageResult.items) = pageResult.items

\* a list with a repeat and an item without identifier, of which two items remain
C21_Witness ==
  /\ pageOp = "deduplicateById"
  /\ Len(pageResult.items) = 2
  /\ Len(pageItems) = MaxItems
  /\ \E i, j \in DOMAIN pageItems :
       i < j /\ Truthy(Key(pageItems[i])) /\ Key(pageItems[i]) = Key(pageItems[j])

----------------------------------------------------------------------------
(* Claims about parsePlaylistPage *)

\* the second-column runs of the first shelf entry the song mapper maps to an item
RECURSIVE FirstSongByline(_)
FirstSongByline(contents) ==
  IF contents = <<>> THEN <<>>
  ELSE IF parseMusicResponsiveListItemRenderer(ListItemOf(Head(contents))) # NoItem
    THEN Head(contents).byline
  ELSE FirstSongByline(Tail(contents))

\* C22: a playlist page without header block and with at least one song gives a
\* playlist descriptor, not null, whose author is the byline artist of the first
\* song.
C22_HeaderlessPlaylistAuthor ==
  (/\ pageOp = "parsePlaylistPage"
   /\ ~pageSections.header.present
   /\ ListItemsOf(getItems(pageSections.shelf.items)) # <<>>)
    => /\ pageResult # NoItem
       /\ LET artists == SongArtists(FirstSongByline(getItems(pageSections.shelf.items)))
          IN artists # <<>> => pageResult.playlist.author = artists[1]

----------------------------------------------------------------------------
(* Claims about missing envelope nodes *)

\* the node the mapper navigates to is missing from the payload
NodeMissing ==
  \/ pageOp = "parseNextResult"
       /\ ~pageSections.panelContinuation.present /\ ~pageSections.panel.present
  \/ pageOp = "parseTranscript" /\ ~pageSections.cueGroups.present
  \/ pageOp = "parseAlbumSongs" /\ ~pageSections.page.present

\* C23: a page mapper applied to a payload in which a node of its envelope is
\* missing returns a page result with an empty item list and a null continuation;
\* it neither throws nor returns null in place of the result.
C23_MissingNodeGivesEmptyPage ==
  NodeMissing
    => /\ pageResult # NoItem
       /\ pageResult # Thrown
       /\ pageOp = "parseNextResult"
            => pageResult.items = <<>> /\ pageResult.continuation = NULL
       /\ pageOp = "parseAlbumSongs"
            => pageResult.songs = <<>> /\ pageResult.continuation = NULL
       /\ pageOp = "parseTranscript" => pageResult.lines = <<>>

----------------------------------------------------------------------------
(* Claims about _withRetry *)

AllFailed == \A i \in DOMAIN attemptLog : ~attemptLog[i].ok

Settled == retryPc \in {"returned", "rejected"}

\* C25: _withRetry invokes the operation at most maxAttempts times; the first
\* success ends the call, which returns that attempt's result; the waits between
\* attempts are initialDelay, doubled at each retry (500 ms, then 1000 ms by
\* default); and when every attempt fails the call rejects with the error of the
\* last attempt.
C25_RetryAtMostMaxAttempts ==
  /\ invoked <= maxAttempts
  /\ \A i \in DOMAIN attemptLog :
       attemptLog[i].ok => /\ i = Len(attemptLog) /\ invoked = i
                           /\ retryPc = "returned" /\ retryOutcome = attemptLog[i]
  /\ \A i \in DOMAIN waited : waited[i] = initialDelay * 2 ^ (i - 1)
  /\ retryPc = "awaiting" => Len(waited) = invoked - 1
  /\ (maxAttempts = DefaultMaxAttempts /\ initialDelay = DefaultInitialDelay
       /\ Len(attemptLog) = DefaultMaxAttempts)
        => waited = <<500, 1000>>
  /\ (Settled /\ invoked >= 1 /\ AllFailed)
        => /\ retryPc = "rejected"
           /\ invoked = maxAttempts
           /\ retryOutcome = attemptLog[Len(attemptLog)]
  /\ retryPc = "rejected" => AllFailed

\* a call with the defaults whose three attempts all failed, the last by a timeout
C25_Witness ==
  /\ retryPc = "rejected"
  /\ maxAttempts = DefaultMaxAttempts /\ initialDelay = DefaultInitialDelay
  /\ invoked = 3
  /\ waited = <<500, 1000>>
  /\ retryOutcome = [ok |-> FALSE, value |-> "timeout", attempt |-> 2]

\* C26: a call to a mutating operation sends its request upstream at most once,
\* whether the request succeeds, is answered with an error status or times out.
C26_MutationSentAtMostOnce ==
  operation \in MutatingOperations => invoked <= 1

----------------------------------------------------------------------------
(* Claims about the visitorData of the shared client *)

Continuing(c) == calls[c].pc = "awaiting" /\ calls[c].entry \in {"route", "method"}

\* C27: a request another operation issues on the shared client while an
\* artistAlbumsContinuation call awaits its response carries the client's
\* configured visitorData, not the one supplied to the continuation call.
C27_OtherRequestsCarryOwnVisitorData ==
  [][\A c \in Calls :
       (/\ calls[c].pc = "idle" /\ calls'[c].pc = "sent"
        /\ \E d \in Calls : Continuing(d))
         => calls'[c].requestVisitorData = configuredVisitorData]_vars

Alone(c) == \A d \in Calls \ {c} : calls[d].pc = "idle"

\* C28: an artistAlbumsContinuation call with no other call in flight leaves the
\* client's visitorData as it was: once the call has returned or failed the
\* client holds its value from before the call, and the call's request carried
\* the supplied visitorData when one was given.
C28_LoneCallRestoresVisitorData ==
  \A c \in Calls :
    (/\ Alone(c)
     /\ calls[c].entry \in {"route", "method"}
     /\ calls[c].pc \in {"done", "failed"})
      => /\ innerTubeVisitorData = configuredVisitorData
         /\ Truthy(calls[c].visitorData)
              => calls[c].requestVisitorData = calls[c].visitorData

\* a lone call with a supplied visitorData has failed, and the client holds its own
C28_Witness ==
  \E c \in Calls :
    /\ Alone(c)
    /\ calls[c].pc = "failed"
    /\ calls[c].visitorData = "VD1"
    /\ calls[c].requestVisitorData = "VD1"
    /\ configuredVisitorData = "VD0"
    /\ innerTubeVisitorData = "VD0"

----------------------------------------------------------------------------
(* Claims about the stream routes *)

\* C29: when the client of a /proxy or /play request has disconnected, at whatever
\* moment after the request was received, the upstream stream opened for the
\* request is eventually destroyed.
C29_DisconnectDestroysUpstream ==
  (~clientConnected /\ upstreamStream = "open") ~> (upstreamStream = "destroyed")

====
